---- MODULE Spec2Model ----
(***************************************************************************)
(* Model of the cell router: the configuration store (Loader) with its     *)
(* file watcher and push client, the circuit breaker, the per-request      *)
(* pipeline of the proxy handler, the debug endpoint and the control-plane *)
(* server.                                                                 *)
(*                                                                         *)
(* Several specifications share the variables:                             *)
(*   SpecBreaker  one circuit.Breaker under arbitrary callers;             *)
(*   SpecFile     boot and the reload loop over a file that is rewritten;  *)
(*   SpecGet      a reader of GetConfig beside the reload loop or the push  *)
(*                client, without the clock;                               *)
(*   SpecPush     boot and the push client fed by a remote control plane;  *)
(*   SpecRoute    a request routed while the reload loop replaces the      *)
(*                configuration;                                           *)
(*   SpecProxy    concurrent requests through proxy.Handler.ServeHTTP;     *)
(*   SpecLimits   limits.Manager under arbitrary callers;                  *)
(*   SpecFailover one request at a time through ServeHTTP on a             *)
(*                configuration with a chain of fallbacks;                 *)
(*   SpecDecide   Route called on a Router over static maps;               *)
(*   SpecStop     Stop called on a started push client, with fairness;     *)
(*   SpecFileLive SpecFile with main and the reload loop kept running;     *)
(*   SpecHealth   one request at a time through ServeHTTP on a             *)
(*                configuration with two health-checked placements;        *)
(*   SpecAdmission concurrent requests on a configuration whose fallback   *)
(*                placement has a concurrency limit;                       *)
(*   SpecWriters  the Loader's writers as main starts them;                *)
(*   SpecDebug    the debug endpoint beside the push client;               *)
(*   SpecServer   the control-plane server, its watcher and connections;   *)
(*   SpecServerLive SpecServer with the server's goroutines kept running.  *)
(* Time is in seconds.                                                     *)
(***************************************************************************)
EXTENDS Integers, Sequences, FiniteSets, TLC

VARIABLES
    \* ---- file system and clock
    file,           \* content of the file at configPath
    writes,         \* number of rewrites of the file so far
    now,            \* time.Now()
    \* ---- config.Loader
    activeConfig,   \* Loader.activeConfig (atomic.Value holding *Config)
    configSource,   \* Loader.configSource
    lastChecksum,   \* Loader.lastChecksum
    lastReload,     \* Loader.lastReload
    \* ---- cmd/router main
    boot,           \* position and locals of main()
    mode,           \* "file" (reload loop) or "cp" (push client)
    hconfig,        \* proxy.Handler.config, the *Config given to NewHandler
    \* ---- Loader.reloadLoop / tryReload
    poll,
    \* ---- dataplane.Client
    cl,             \* connectionLoop / handleMessages position and locals
    conn,           \* the websocket connection: "none", "open", "lost"
    inbox,          \* messages written by the remote side, not yet read
    sent,           \* replies written by the client on the connection
    pushes,         \* number of messages the remote side has written
    \* ---- one request reading the configuration (Router.Route + handler)
    rd,
    \* ---- one reader holding the result of Loader.GetConfig
    gr,
    published,      \* history: every config stored in activeConfig so far
    lastReplaced,   \* history: config of the last replacement that returned
    \* ---- circuit.Breaker under arbitrary callers
    brk,            \* the breaker
    callers,        \* the goroutines using the breaker
    bobs,           \* observation of the last call on the breaker
    \* ---- proxy.Handler
    breakers,       \* circuit.Manager.breakers
    held,           \* limits.Manager: slots held per placement
    unhealthy,      \* placements whose EndpointHealth.State is unhealthy
    healthEndpoints, \* keys of h.healthChecker.endpoints after configureResilienceMechanisms
    reqs,           \* the in-flight requests
    lastLog,        \* the last entry written by Handler.logRequest
    lastResponse,   \* history: the last response written to a client (Nil: not observed)
    streak,         \* history: consecutive failed requests to a placement with circuit_breaker
    \* ---- routing.Router over static maps
    router,         \* the Router made by NewRouter
    lastDecision,   \* the key and the result of the last call of Route
    \* ---- dataplane.Client.Stop
    stop,           \* the caller of Stop, c.reconnect and c.stopCh
    \* ---- debug.Handler
    dbg,            \* one request to /debug/config: position and values read
    \* ---- controlplane.Server
    srv             \* the server, its watcher and its connections

storeVars == <<file, writes, activeConfig, configSource, lastChecksum, lastReload,
               boot, mode, hconfig, poll, cl, conn, inbox, sent, pushes, rd, gr,
               published, lastReplaced>>
breakerVars == <<brk, callers, bobs>>
proxyVars == <<breakers, held, unhealthy, healthEndpoints, reqs, lastLog, lastResponse, streak>>
routerVars == <<router, lastDecision>>
ctlVars == <<dbg, srv>>
vars == <<now, storeVars, breakerVars, proxyVars, routerVars, stop, ctlVars>>

(***************************************************************************)
(* Bounds of the model.                                                    *)
(***************************************************************************)
MaxWrites == 2      \* rewrites of the config file
MaxPushes == 2      \* messages written by the remote side
MaxTime == 2        \* clock ticks in SpecFile and SpecPush
MaxThreshold == 3   \* largest FailureThreshold of a breaker in SpecBreaker
MaxTimeout == 2     \* largest Timeout of a breaker in SpecBreaker
MaxBTime == 4       \* clock ticks in SpecBreaker
MaxCallers == 2     \* goroutines using the breaker in SpecBreaker
MaxFailures == 5    \* failure count of a breaker beyond which no upstream fails in SpecProxy
MaxAttempts == 8    \* consecutive failed connection attempts of the push client

Nil == <<>>          \* a nil pointer or a nil/empty map
Ptr(x) == <<x>>      \* a non-nil pointer

Min(a, b) == IF a < b THEN a ELSE b

(***************************************************************************)
(* config: durations, URLs, Config, Validate.                              *)
(***************************************************************************)
\* time.ParseDuration on the duration strings used by the documents below.
ParseDuration(s) ==
    CASE s = "30s" -> [err |-> FALSE, d |-> 30]
      [] s = "10s" -> [err |-> FALSE, d |-> 10]
      [] s = "2s"  -> [err |-> FALSE, d |-> 2]
      [] s = "0s"  -> [err |-> FALSE, d |-> 0]
      [] s = "-5s" -> [err |-> FALSE, d |-> 0 - 5]
      [] OTHER     -> [err |-> TRUE,  d |-> 0]

\* url.Parse on the URLs of the documents below and of the package's tests:
\* "missing protocol scheme" for a URL whose first character is the colon;
\* every other one of them parses.
ColonFirst == {":bad", "://invalid-url"}
urlParse(u) == [err |-> (u \in ColonFirst)]

\* HealthCheckConfig.Parse
HealthCheckParse(h) ==
    LET interval == ParseDuration(h.Interval)
        timeout  == ParseDuration(h.Timeout)
    IN  IF interval.err THEN [err |-> "invalid health check interval", Path |-> "", Interval |-> 0, Timeout |-> 0]
        ELSE IF timeout.err THEN [err |-> "invalid health check timeout", Path |-> "", Interval |-> 0, Timeout |-> 0]
        ELSE [err |-> "", Path |-> h.Path, Interval |-> interval.d, Timeout |-> timeout.d]

\* uint32(n) for an int n.  A negative n wraps to 2^32 + n, which is above
\* every count the model reaches; the tool's integers end at 2^31 - 1, so
\* such a value is represented by 2^31 - 1.
Uint32(n) == IF n >= 0 THEN n ELSE 2147483647

\* CircuitBreakerConfig.Parse, with its uint32(c.FailureThreshold).
CircuitBreakerParse(c) ==
    LET timeout == ParseDuration(c.Timeout)
    IN  IF timeout.err THEN [err |-> "invalid circuit breaker timeout", FailureThreshold |-> 0, Timeout |-> 0]
        ELSE [err |-> "", FailureThreshold |-> Uint32(c.FailureThreshold), Timeout |-> timeout.d]

\* A PlacementConfig value.
Placement(url, fallback, hc, cb, limit, maxBody) ==
    [URL |-> url, Fallback |-> fallback, HealthCheck |-> hc, CircuitBreaker |-> cb,
     ConcurrencyLimit |-> limit, MaxRequestBodyBytes |-> maxBody]

\* A Config value.
MkConfig(version, rt, ce, pl, def) ==
    [Version |-> version, RoutingTable |-> rt, CellEndpoints |-> ce,
     Placements |-> pl, DefaultPlacement |-> def]

\* Config.GetCellEndpoints: the legacy map when it is non-empty, else the
\* URLs of the placements.
GetCellEndpoints(c) ==
    IF Cardinality(DOMAIN c.CellEndpoints) > 0
    THEN c.CellEndpoints
    ELSE [k \in DOMAIN c.Placements |-> c.Placements[k].URL]

\* Config.GetPlacementConfig
GetPlacementConfig(c, placementKey) ==
    IF placementKey \in DOMAIN c.Placements
    THEN [exists |-> TRUE, cfg |-> c.Placements[placementKey]]
    ELSE [exists |-> FALSE, cfg |-> Placement("", "", Nil, Nil, 0, 0)]

\* The checks Validate makes on one entry of Placements.
PlacementError(endpoints, p) ==
    IF p.Fallback # "" /\ p.Fallback \notin DOMAIN endpoints
    THEN "references unknown fallback"
    ELSE IF p.HealthCheck # Nil /\ HealthCheckParse(p.HealthCheck[1]).err # ""
    THEN HealthCheckParse(p.HealthCheck[1]).err
    ELSE IF p.CircuitBreaker # Nil /\ CircuitBreakerParse(p.CircuitBreaker[1]).err # ""
    THEN CircuitBreakerParse(p.CircuitBreaker[1]).err
    ELSE ""

\* Config.Validate: "" when the config is valid, else the error.
Validate(c) ==
    LET endpoints == GetCellEndpoints(c)
        badPl == {k \in DOMAIN c.Placements : PlacementError(endpoints, c.Placements[k]) # ""}
    IN  IF c.Version = "" THEN "version must be non-empty"
        ELSE IF c.DefaultPlacement \notin DOMAIN endpoints
        THEN "defaultPlacement not found in endpoints"
        ELSE IF \E k \in DOMAIN c.RoutingTable : c.RoutingTable[k] \notin DOMAIN endpoints
        THEN "routingTable references unknown placement"
        ELSE IF \E p \in DOMAIN endpoints : urlParse(endpoints[p]).err
        THEN "invalid URL for placement"
        ELSE IF badPl # {}
        THEN PlacementError(endpoints, c.Placements[CHOOSE k \in badPl : TRUE])
        ELSE ""

(***************************************************************************)
(* The configuration documents the file and the push channel can carry.    *)
(***************************************************************************)
EmptyConfig == MkConfig("", Nil, Nil, Nil, "")

CfgV1 ==
    MkConfig("1", ("acme" :> "tier1") @@ ("visa" :> "visa"),
             ("tier1" :> "http://u-t1") @@ ("tier3" :> "http://u-t3") @@ ("visa" :> "http://u-visa"),
             Nil, "tier3")

CfgV2 ==
    MkConfig("2", ("acme" :> "visa"),
             ("tier3" :> "http://u-t3b") @@ ("visa" :> "http://u-visa"),
             Nil, "visa")

\* Scenario S5: the routing table names a placement that has no endpoint.
CfgGhost ==
    MkConfig("2", ("acme" :> "ghost"), ("tier3" :> "http://u-t3"), Nil, "tier3")

CfgNoDefault ==
    MkConfig("3", ("acme" :> "tier3"), ("tier3" :> "http://u-t3"), Nil, "ghost")

CfgNoVersion ==
    MkConfig("", ("acme" :> "tier3"), ("tier3" :> "http://u-t3"), Nil, "tier3")

CfgBadURL ==
    MkConfig("4", ("acme" :> "tier3"), ("tier3" :> ":bad"), Nil, "tier3")

\* Extended shape: placements only.
CfgExtended ==
    MkConfig("5", ("acme" :> "tier1"), Nil,
             ("tier1" :> Placement("http://u-t1", "tier3", Nil,
                                   Ptr([FailureThreshold |-> 3, Timeout |-> "30s"]), 0, 0))
             @@ ("tier3" :> Placement("http://u-t3", "", Nil, Nil, 0, 0)),
             "tier3")

CfgBadFallback ==
    MkConfig("6", ("acme" :> "tier3"), Nil,
             ("tier3" :> Placement("http://u-t3", "ghost", Nil, Nil, 0, 0)),
             "tier3")

CfgBadDuration ==
    MkConfig("7", ("acme" :> "tier3"), Nil,
             ("tier3" :> Placement("http://u-t3", "",
                                   Ptr([Path |-> "/health", Interval |-> "abc", Timeout |-> "2s"]),
                                   Nil, 0, 0)),
             "tier3")

\* Durations that parse but are zero or negative, and a failure_threshold of
\* zero.
CfgNonPositive ==
    MkConfig("11", ("acme" :> "tier3"), Nil,
             ("tier3" :> Placement("http://u-t3", "",
                                   Ptr([Path |-> "/health", Interval |-> "0s", Timeout |-> "-5s"]),
                                   Ptr([FailureThreshold |-> 0, Timeout |-> "0s"]), 0, 0)),
             "tier3")

\* Both shapes at once with different URLs for tier1.
CfgBoth ==
    MkConfig("12", ("acme" :> "tier1"),
             ("tier1" :> "http://old-t1") @@ ("tier3" :> "http://u-t3"),
             ("tier1" :> Placement("http://u-t1", "", Nil, Nil, 0, 0))
             @@ ("tier3" :> Placement("http://u-t3", "", Nil, Nil, 0, 0)),
             "tier3")

\* Both shapes at once, the legacy map without tier1.
CfgBothPartial ==
    MkConfig("13", ("acme" :> "tier1"),
             ("tier3" :> "http://u-t3"),
             ("tier1" :> Placement("http://u-t1", "", Nil, Nil, 0, 0))
             @@ ("tier3" :> Placement("http://u-t3", "", Nil, Nil, 0, 0)),
             "tier3")

\* What os.ReadFile can find at configPath.
FileOf(c) == [exists |-> TRUE, parses |-> TRUE, cfg |-> c]
FileMissing == [exists |-> FALSE, parses |-> FALSE, cfg |-> EmptyConfig]
FileGarbage == [exists |-> TRUE, parses |-> FALSE, cfg |-> EmptyConfig]

FileConfigs == {CfgV1, CfgV2, CfgGhost, CfgNoDefault, CfgNoVersion, CfgBadURL,
                CfgExtended, CfgBadFallback, CfgBadDuration}
FileContents == {FileMissing, FileGarbage} \cup {FileOf(c) : c \in FileConfigs}

\* LoadFromFile: os.ReadFile then json.Unmarshal into a Config.
LoadFromFile(f) ==
    IF ~f.exists THEN [err |-> "failed to read config file", cfg |-> EmptyConfig]
    ELSE IF ~f.parses THEN [err |-> "failed to parse config", cfg |-> EmptyConfig]
    ELSE [err |-> "", cfg |-> f.cfg]

\* fileChecksum: the SHA-256 digest of the content, here the content tagged.
fileChecksum(f) ==
    IF ~f.exists THEN [err |-> TRUE, sum |-> Nil]
    ELSE [err |-> FALSE, sum |-> <<"sha256", f>>]

(***************************************************************************)
(* circuit.Breaker                                                         *)
(***************************************************************************)
StateClosed == "closed"
StateOpen == "open"
StateHalfOpen == "half_open"

ZeroTime == 0        \* time.Time{}; the clock starts after it

\* NewBreaker at time t.
NewBreaker(config, t) ==
    [config |-> config, state |-> StateClosed, failures |-> 0,
     lastStateChange |-> t, nextRetryTime |-> ZeroTime]

\* Breaker.transitionTo at time t.
transitionTo(b, newState, t) ==
    IF b.state = newState THEN b
    ELSE [b EXCEPT !.state = newState, !.lastStateChange = t]

\* Mutant of Allow: a refusal counts as a failure.
Allow_CountsRefusal(b, t) ==
    CASE b.state = StateClosed -> [b |-> b, ok |-> TRUE]
      [] b.state = StateOpen ->
            IF t > b.nextRetryTime
            THEN [b |-> transitionTo(b, StateHalfOpen, t), ok |-> TRUE]
            ELSE [b |-> [b EXCEPT !.failures = b.failures + 1], ok |-> FALSE]
      [] b.state = StateHalfOpen -> [b |-> b, ok |-> TRUE]
      [] OTHER -> [b |-> b, ok |-> FALSE]

\* Breaker.Allow at time t: the breaker afterwards and the value returned.
Allow(b, t) ==
    CASE b.state = StateClosed -> [b |-> b, ok |-> TRUE]
      [] b.state = StateOpen ->
            IF t > b.nextRetryTime
            THEN [b |-> transitionTo(b, StateHalfOpen, t), ok |-> TRUE]
            ELSE [b |-> b, ok |-> FALSE]
      [] b.state = StateHalfOpen -> [b |-> b, ok |-> TRUE]
      [] OTHER -> [b |-> b, ok |-> FALSE]

\* Mutant of RecordSuccess: closing a half-open breaker keeps the count.
RecordSuccess_KeepsCount(b, t) ==
    CASE b.state = StateClosed -> [b EXCEPT !.failures = 0]
      [] b.state = StateHalfOpen -> transitionTo(b, StateClosed, t)
      [] OTHER -> b

\* Mutant of RecordSuccess: a success recorded on an open breaker closes it too.
RecordSuccess_ClosesOpen(b, t) ==
    CASE b.state = StateClosed -> [b EXCEPT !.failures = 0]
      [] b.state \in {StateHalfOpen, StateOpen} ->
            transitionTo([b EXCEPT !.failures = 0], StateClosed, t)
      [] OTHER -> b

\* Breaker.RecordSuccess at time t.
RecordSuccess(b, t) ==
    CASE b.state = StateClosed -> [b EXCEPT !.failures = 0]
      [] b.state = StateHalfOpen ->
            transitionTo([b EXCEPT !.failures = 0], StateClosed, t)
      [] OTHER -> b

\* Mutant of RecordFailure: the threshold test is > instead of >=.
RecordFailure_OffByOne(b, t) ==
    LET b1 == [b EXCEPT !.failures = b.failures + 1]
    IN  CASE b.state = StateClosed ->
                IF b1.failures > b.config.FailureThreshold
                THEN transitionTo([b1 EXCEPT !.nextRetryTime = t + b.config.Timeout], StateOpen, t)
                ELSE b1
          [] b.state = StateHalfOpen ->
                transitionTo([b1 EXCEPT !.nextRetryTime = t + b.config.Timeout], StateOpen, t)
          [] OTHER -> b1

\* Breaker.RecordFailure at time t.  failures is a uint32; the model calls
\* RecordFailure only while the count is a few units, far below 2^32.
RecordFailure(b, t) ==
    LET b1 == [b EXCEPT !.failures = b.failures + 1]
    IN  CASE b.state = StateClosed ->
                IF b1.failures >= b.config.FailureThreshold
                THEN transitionTo([b1 EXCEPT !.nextRetryTime = t + b.config.Timeout], StateOpen, t)
                ELSE b1
          [] b.state = StateHalfOpen ->
                transitionTo([b1 EXCEPT !.nextRetryTime = t + b.config.Timeout], StateOpen, t)
          [] OTHER -> b1

\* Breaker.GetState, under the breaker's read lock.
GetState(b) == b.state

(***************************************************************************)
(* SpecBreaker: one breaker used by MaxCallers goroutines.  Each goroutine *)
(* calls Allow and, when admitted, later records the outcome, as           *)
(* Handler.ServeHTTP does; calls of different goroutines interleave freely *)
(* (each call holds the breaker's mutex, so a call is one step).           *)
(***************************************************************************)
Callers == 1..MaxCallers
FailCap == MaxThreshold + 2     \* RecordFailure is not called beyond this count

BreakerConfigs ==
    {[FailureThreshold |-> n, Timeout |-> d] : n \in 1..MaxThreshold, d \in 1..MaxTimeout}

IdleCaller == [pc |-> "idle", admitted |-> "none"]
NoCall == [n |-> 0, op |-> "none", ok |-> FALSE, pre |-> "none", fsince |-> 0]

BreakerInit ==
    /\ \E config \in BreakerConfigs : brk = NewBreaker(config, 1)
    /\ callers = [c \in Callers |-> IdleCaller]
    /\ bobs = NoCall

BreakerIdle ==
    /\ brk = NewBreaker([FailureThreshold |-> 1, Timeout |-> 1], 1)
    /\ callers = [c \in Callers |-> IdleCaller]
    /\ bobs = NoCall

\* Goroutine c calls Allow.
BAllow(c) ==
    /\ callers[c].pc = "idle"
    /\ LET r == Allow(brk, now)
       IN  /\ brk' = r.b
           /\ callers' = [callers EXCEPT ![c] =
                            IF r.ok THEN [pc |-> "inflight", admitted |-> r.b.state]
                            ELSE IdleCaller]
           /\ bobs' = [n |-> 1 - bobs.n, op |-> "Allow", ok |-> r.ok,
                       pre |-> brk.state, fsince |-> bobs.fsince]
    /\ UNCHANGED <<now, storeVars, proxyVars, routerVars, stop, ctlVars>>

\* Goroutine c, admitted earlier, records a success.
BRecordSuccess(c) ==
    /\ callers[c].pc = "inflight"
    /\ brk' = RecordSuccess(brk, now)
    /\ callers' = [callers EXCEPT ![c] = IdleCaller]
    /\ bobs' = [n |-> 1 - bobs.n, op |-> "RecordSuccess", ok |-> FALSE,
                pre |-> brk.state, fsince |-> 0]
    /\ UNCHANGED <<now, storeVars, proxyVars, routerVars, stop, ctlVars>>

\* Goroutine c, admitted earlier, records a failure.
BRecordFailure(c) ==
    /\ callers[c].pc = "inflight"
    /\ brk.failures < FailCap
    /\ brk' = RecordFailure(brk, now)
    /\ callers' = [callers EXCEPT ![c] = IdleCaller]
    /\ bobs' = [n |-> 1 - bobs.n, op |-> "RecordFailure", ok |-> FALSE,
                pre |-> brk.state, fsince |-> bobs.fsince + 1]
    /\ UNCHANGED <<now, storeVars, proxyVars, routerVars, stop, ctlVars>>

\* Time passes.
BTick ==
    /\ now < MaxBTime
    /\ now' = now + 1
    /\ UNCHANGED <<storeVars, breakerVars, proxyVars, routerVars, stop, ctlVars>>

(***************************************************************************)
(* config.Loader, cmd/router main, the reload loop and the push client.    *)
(***************************************************************************)
SourceFile == "file"
SourceControlPlane == "control_plane"

\* Loader.GetConfig: one atomic load of the pointer.
GetConfig == activeConfig

\* The three values the debug surface and the claims speak of.
StoreView == <<activeConfig, configSource, lastReload>>

IdlePoll == [pc |-> "idle", sum |-> Nil, cfg |-> EmptyConfig,
             before |-> <<EmptyConfig, "", ZeroTime>>, failed |-> FALSE]
IdleClient == [pc |-> "off", backoff |-> 1, failures |-> 0, cfg |-> EmptyConfig,
               before |-> EmptyConfig, handled |-> "none", answering |-> ""]
\* debug.NewHandler: no request to /debug/config is under way.
IdleDebug == [pc |-> "idle", version |-> "", source |-> "", time |-> ZeroTime]
\* NewClient: reconnect is true and stopCh is open; nobody has called Stop.
IdleStop == [pc |-> "idle", reconnect |-> TRUE, stopCh |-> "open"]
IdleReader == [pc |-> "idle", key |-> "", rt |-> Nil, ep |-> Nil, def |-> "",
               rtFrom |-> EmptyConfig, epFrom |-> EmptyConfig,
               defFrom |-> EmptyConfig, fbFrom |-> EmptyConfig,
               err |-> FALSE, placement |-> "", fallback |-> ""]
IdleGetter == [pc |-> "idle", h |-> EmptyConfig, msg |-> <<>>]

StoreInit ==
    /\ file \in FileContents /\ writes = 0
    /\ activeConfig = EmptyConfig /\ configSource = "" /\ lastChecksum = Nil
    /\ lastReload = ZeroTime
    /\ boot = [pc |-> "load", cfg |-> EmptyConfig]
    /\ mode = "none" /\ hconfig = EmptyConfig
    /\ poll = IdlePoll /\ cl = IdleClient /\ stop = IdleStop /\ dbg = IdleDebug /\ srv = Nil
    /\ conn = "none" /\ inbox = <<>> /\ sent = <<>> /\ pushes = 0
    /\ rd = IdleReader /\ gr = IdleGetter
    /\ published = {} /\ lastReplaced = EmptyConfig

\* Someone rewrites (or removes) the file at configPath.  Rewrites are
\* followed while something can still read the file: in push mode nothing
\* reads it after LoadInitial.
WriteFile(f) ==
    /\ writes < MaxWrites
    /\ boot.pc \in {"load", "checksum", "mode"} \/ mode = "file"
    /\ f # file
    /\ file' = f
    /\ writes' = writes + 1
    /\ UNCHANGED <<now, activeConfig, configSource, lastChecksum, lastReload, boot, mode,
                   hconfig, poll, cl, conn, inbox, sent, pushes, rd, gr, published,
                   lastReplaced, breakerVars, proxyVars, routerVars, stop, ctlVars>>

\* Time passes.
TickStore ==
    /\ now < MaxTime
    /\ now' = now + 1
    /\ UNCHANGED <<storeVars, breakerVars, proxyVars, routerVars, stop, ctlVars>>

\* ---- main -------------------------------------------------------------
\* The router process runs: no goroutine of it has panicked.
Running == boot.pc # "crashed"

\* LoadInitial, first half: LoadFromFile and Validate.  An error is fatal.
LoadInitialRead ==
    /\ boot.pc = "load"
    /\ LET res == LoadFromFile(file)
           err == IF res.err # "" THEN res.err ELSE Validate(res.cfg)
       IN  boot' = IF err # "" THEN [pc |-> "fatal", cfg |-> EmptyConfig]
                   ELSE [pc |-> "checksum", cfg |-> res.cfg]
    /\ UNCHANGED <<now, file, writes, activeConfig, configSource, lastChecksum, lastReload,
                   mode, hconfig, poll, cl, conn, inbox, sent, pushes, rd, gr, published,
                   lastReplaced, breakerVars, proxyVars, routerVars, stop, ctlVars>>

\* LoadInitial, second half: fileChecksum (a second read of the file) and the
\* four stores; no other goroutine exists yet.
LoadInitialStore ==
    /\ boot.pc = "checksum"
    /\ LET checksum == fileChecksum(file)
       IN  IF checksum.err
           THEN /\ boot' = [pc |-> "fatal", cfg |-> EmptyConfig]
                /\ UNCHANGED <<activeConfig, configSource, lastChecksum, lastReload,
                               published, lastReplaced>>
           ELSE /\ activeConfig' = boot.cfg
                /\ configSource' = SourceFile
                /\ lastChecksum' = checksum.sum
                /\ lastReload' = now
                /\ published' = published \cup {boot.cfg}
                /\ lastReplaced' = boot.cfg
                /\ boot' = [pc |-> "mode", cfg |-> EmptyConfig]
    /\ UNCHANGED <<now, file, writes, mode, hconfig, poll, cl, conn, inbox, sent, pushes,
                   rd, gr, breakerVars, proxyVars, routerVars, stop, ctlVars>>

\* Mutant of StartClient: main starts the reload loop beside the client.
StartClient_AndReloadLoop ==
    /\ boot.pc = "mode"
    /\ mode' = "file"
    /\ cl' = [cl EXCEPT !.pc = "loop"]
    /\ boot' = [boot EXCEPT !.pc = "handler"]
    /\ UNCHANGED <<now, file, writes, activeConfig, configSource, lastChecksum, lastReload,
                   hconfig, poll, conn, inbox, sent, pushes, rd, gr, published,
                   lastReplaced, breakerVars, proxyVars, routerVars, stop, ctlVars>>

\* main with CONTROL_PLANE_URL set: dpClient.Start().
StartClient ==
    /\ boot.pc = "mode"
    /\ mode' = "cp"
    /\ cl' = [cl EXCEPT !.pc = "loop"]
    /\ boot' = [boot EXCEPT !.pc = "handler"]
    /\ UNCHANGED <<now, file, writes, activeConfig, configSource, lastChecksum, lastReload,
                   hconfig, poll, conn, inbox, sent, pushes, rd, gr, published,
                   lastReplaced, breakerVars, proxyVars, routerVars, stop, ctlVars>>

\* main without CONTROL_PLANE_URL: configLoader.StartReloadLoop().
StartReloadLoop ==
    /\ boot.pc = "mode"
    /\ mode' = "file"
    /\ boot' = [boot EXCEPT !.pc = "handler"]
    /\ UNCHANGED <<now, file, writes, activeConfig, configSource, lastChecksum, lastReload,
                   hconfig, poll, cl, conn, inbox, sent, pushes, rd, gr, published,
                   lastReplaced, breakerVars, proxyVars, routerVars, stop, ctlVars>>

\* The placements for which configureResilienceMechanisms made a checker of
\* their own with health.NewChecker and registered them in it.
OwnChecker(cfg) ==
    {k \in DOMAIN GetCellEndpoints(cfg) :
        /\ GetPlacementConfig(cfg, k).exists
        /\ GetPlacementConfig(cfg, k).cfg.HealthCheck # Nil
        /\ HealthCheckParse(GetPlacementConfig(cfg, k).cfg.HealthCheck[1]).err = ""}

\* main: proxy.NewHandler(router, configLoader.GetConfig(), logger).  The
\* handler keeps the config it was given (h.config); RegisterEndpoint starts
\* a checkLoop goroutine for every placement and returns, and main goes on.
NewHandler ==
    /\ boot.pc = "handler"
    /\ hconfig' = GetConfig
    /\ boot' = [boot EXCEPT !.pc = "serving"]
    /\ UNCHANGED <<now, file, writes, activeConfig, configSource, lastChecksum, lastReload,
                   mode, poll, cl, conn, inbox, sent, pushes, rd, gr, published,
                   lastReplaced, breakerVars, proxyVars, routerVars, stop, ctlVars>>

\* checkLoop of a checker NewHandler made for a placement of its own:
\* time.NewTicker(c.config.Interval) panics for an interval that is not
\* positive (the default checker's interval is 10 s).  The goroutine runs
\* at some moment after RegisterEndpoint started it; until then the reload
\* loop, the push client and the handler go on, and with the panic the
\* process ends.
CheckLoopPanic ==
    /\ boot.pc = "serving"
    /\ \E k \in OwnChecker(hconfig) :
           HealthCheckParse(GetPlacementConfig(hconfig, k).cfg.HealthCheck[1]).Interval <= 0
    /\ boot' = [boot EXCEPT !.pc = "crashed"]
    /\ UNCHANGED <<now, file, writes, activeConfig, configSource, lastChecksum, lastReload,
                   mode, hconfig, poll, cl, conn, inbox, sent, pushes, rd, gr, published,
                   lastReplaced, breakerVars, proxyVars, routerVars, stop, ctlVars>>

\* ---- Loader.tryReload, one call per tick of the reload loop -----------
\* Mutant of tryReloadAfterLoad: the error is logged and tryReload goes on.
tryReloadAfterLoad_GoesOn(err) == "store_config"

\* Where tryReload goes after LoadFromFile and Validate gave err.
tryReloadAfterLoad(err) == IF err # "" THEN "idle" ELSE "store_config"

\* tryReload, first read: fileChecksum and the comparison with lastChecksum.
PollChecksum ==
    /\ Running
    /\ mode = "file" /\ poll.pc = "idle"
    /\ LET currentChecksum == fileChecksum(file)
       IN  poll' = [pc |-> IF currentChecksum.err \/ currentChecksum.sum = lastChecksum
                           THEN "idle" ELSE "load",
                    sum |-> currentChecksum.sum,
                    cfg |-> EmptyConfig,
                    before |-> StoreView,
                    failed |-> currentChecksum.err]
    /\ UNCHANGED <<now, file, writes, activeConfig, configSource, lastChecksum, lastReload,
                   boot, mode, hconfig, cl, conn, inbox, sent, pushes, rd, gr, published,
                   lastReplaced, breakerVars, proxyVars, routerVars, stop, ctlVars>>

\* tryReload, second read: LoadFromFile and Validate.
PollLoad ==
    /\ Running
    /\ poll.pc = "load"
    /\ LET res == LoadFromFile(file)
           err == IF res.err # "" THEN res.err ELSE Validate(res.cfg)
       IN  poll' = [poll EXCEPT !.pc = tryReloadAfterLoad(err),
                                !.cfg = res.cfg,
                                !.failed = (err # "")]
    /\ UNCHANGED <<now, file, writes, activeConfig, configSource, lastChecksum, lastReload,
                   boot, mode, hconfig, cl, conn, inbox, sent, pushes, rd, gr, published,
                   lastReplaced, breakerVars, proxyVars, routerVars, stop, ctlVars>>

\* l.activeConfig.Store(cfg)
PollStoreConfig ==
    /\ Running
    /\ poll.pc = "store_config"
    /\ activeConfig' = poll.cfg
    /\ published' = published \cup {poll.cfg}
    /\ poll' = [poll EXCEPT !.pc = "store_source"]
    /\ UNCHANGED <<now, file, writes, configSource, lastChecksum, lastReload, boot, mode,
                   hconfig, cl, conn, inbox, sent, pushes, rd, gr, lastReplaced,
                   breakerVars, proxyVars, routerVars, stop, ctlVars>>

\* l.configSource.Store(SourceFile)
PollStoreSource ==
    /\ Running
    /\ poll.pc = "store_source"
    /\ configSource' = SourceFile
    /\ poll' = [poll EXCEPT !.pc = "store_checksum"]
    /\ UNCHANGED <<now, file, writes, activeConfig, lastChecksum, lastReload, boot, mode,
                   hconfig, cl, conn, inbox, sent, pushes, rd, gr, published, lastReplaced,
                   breakerVars, proxyVars, routerVars, stop, ctlVars>>

\* l.lastChecksum.Store(currentChecksum)
PollStoreChecksum ==
    /\ Running
    /\ poll.pc = "store_checksum"
    /\ lastChecksum' = poll.sum
    /\ poll' = [poll EXCEPT !.pc = "store_time"]
    /\ UNCHANGED <<now, file, writes, activeConfig, configSource, lastReload, boot, mode,
                   hconfig, cl, conn, inbox, sent, pushes, rd, gr, published, lastReplaced,
                   breakerVars, proxyVars, routerVars, stop, ctlVars>>

\* l.lastReload.Store(time.Now()); tryReload returns.
PollStoreTime ==
    /\ Running
    /\ poll.pc = "store_time"
    /\ lastReload' = now
    /\ lastReplaced' = poll.cfg
    /\ poll' = [poll EXCEPT !.pc = "idle"]
    /\ UNCHANGED <<now, file, writes, activeConfig, configSource, lastChecksum, boot, mode,
                   hconfig, cl, conn, inbox, sent, pushes, rd, gr, published,
                   breakerVars, proxyVars, routerVars, stop, ctlVars>>

\* ---- protocol messages and dataplane.Client ----------------------------
MessageTypeConfigSnapshot == "config_snapshot"
MessageTypeAck == "ack"
MessageTypeNack == "nack"

\* The ConfigSnapshotMessage the control plane builds from its active config
\* (BroadcastConfig, sendConfigToClient), as received: json says whether the
\* bytes parse as a protocol.Message, shapeOK whether they also parse as a
\* ConfigSnapshotMessage.
SnapshotMessage(c) ==
    [json |-> TRUE, Type |-> MessageTypeConfigSnapshot, shapeOK |-> TRUE,
     Version |-> c.Version, RoutingTable |-> c.RoutingTable,
     CellEndpoints |-> c.CellEndpoints, DefaultPlacement |-> c.DefaultPlacement]

\* Bytes that are not JSON.
GarbageMessage ==
    [json |-> FALSE, Type |-> "", shapeOK |-> FALSE, Version |-> "",
     RoutingTable |-> Nil, CellEndpoints |-> Nil, DefaultPlacement |-> ""]
\* A message of a type the client does not know.
UnknownMessage == [GarbageMessage EXCEPT !.json = TRUE, !.Type = "bogus", !.Version = "9"]
\* {"type":"config_snapshot","version":"8","routingTable":"x"}: a Message, but
\* no ConfigSnapshotMessage.
MalformedSnapshot ==
    [GarbageMessage EXCEPT !.json = TRUE, !.Type = MessageTypeConfigSnapshot, !.Version = "8"]

PushConfigs == {CfgV1, CfgV2, CfgGhost, CfgNoVersion, CfgExtended}
RemoteMessages ==
    {GarbageMessage, UnknownMessage, MalformedSnapshot} \cup {SnapshotMessage(c) : c \in PushConfigs}

\* The Config that handleConfigSnapshot builds from a snapshot message.
SnapshotConfig(m) ==
    MkConfig(m.Version, m.RoutingTable, m.CellEndpoints, Nil, m.DefaultPlacement)

\* Loader.ApplyConfig's return value for cfg: always nil.
ApplyConfigError(cfg) == ""

\* sendAck / sendNack: the message written; the Version field is left empty.
AckMessage == [Type |-> MessageTypeAck, Version |-> "", Error |-> ""]
NackMessage(reason) == [Type |-> MessageTypeNack, Version |-> "", Error |-> reason]

\* conn.WriteMessage: the write reaches the remote side on an open connection.
WriteMessage(m) == IF conn = "open" THEN Append(sent, m) ELSE sent

\* connectionLoop, top of the for: the select on stopCh and the read of
\* c.reconnect under the mutex.  Stop clears reconnect before it closes
\* stopCh, so the loop returns exactly when reconnect is false at the read;
\* returning closes c.done.
ClientLoopTop ==
    /\ Running
    /\ cl.pc = "loop"
    /\ cl' = [cl EXCEPT !.pc = IF stop.stopCh = "closed" \/ ~stop.reconnect
                                THEN "exited" ELSE "connect"]
    /\ UNCHANGED <<now, file, writes, activeConfig, configSource, lastChecksum, lastReload,
                   boot, mode, hconfig, poll, conn, inbox, sent, pushes, rd, gr, published,
                   lastReplaced, breakerVars, proxyVars, routerVars, stop, ctlVars>>

\* connectionLoop: connect() succeeds (Dial under the mutex, c.conn = conn);
\* the backoff is reset.
ClientConnect ==
    /\ Running
    /\ cl.pc = "connect"
    /\ conn' = "open"
    /\ inbox' = <<>>
    /\ cl' = [cl EXCEPT !.pc = "read", !.backoff = 1, !.failures = 0]
    /\ UNCHANGED <<now, file, writes, activeConfig, configSource, lastChecksum, lastReload,
                   boot, mode, hconfig, poll, sent, pushes, rd, gr, published,
                   lastReplaced, breakerVars, proxyVars, routerVars, stop, ctlVars>>

\* Mutant of ClientConnectFail: a failed attempt drops the active config.
ClientConnectFail_DropsConfig ==
    /\ cl.pc = "connect"
    /\ cl.failures < MaxAttempts
    /\ cl' = [cl EXCEPT !.pc = "sleep", !.failures = @ + 1]
    /\ activeConfig' = EmptyConfig
    /\ UNCHANGED <<now, file, writes, configSource, lastChecksum, lastReload,
                   boot, mode, hconfig, poll, conn, inbox, sent, pushes, rd, gr, published,
                   lastReplaced, breakerVars, proxyVars, routerVars, stop, ctlVars>>

\* connectionLoop: connect() fails; time.Sleep(backoff) begins.
ClientConnectFail ==
    /\ Running
    /\ cl.pc = "connect"
    /\ cl.failures < MaxAttempts
    /\ cl' = [cl EXCEPT !.pc = "sleep", !.failures = @ + 1]
    /\ UNCHANGED <<now, file, writes, activeConfig, configSource, lastChecksum, lastReload,
                   boot, mode, hconfig, poll, conn, inbox, sent, pushes, rd, gr, published,
                   lastReplaced, breakerVars, proxyVars, routerVars, stop, ctlVars>>

\* Mutant of ClientBackoff: the backoff doubles without a cap.
ClientBackoff_NoCap ==
    /\ cl.pc = "sleep"
    /\ cl' = [cl EXCEPT !.pc = "loop", !.backoff = cl.backoff * 2]
    /\ UNCHANGED <<now, file, writes, activeConfig, configSource, lastChecksum, lastReload,
                   boot, mode, hconfig, poll, conn, inbox, sent, pushes, rd, gr, published,
                   lastReplaced, breakerVars, proxyVars, routerVars, stop, ctlVars>>

\* connectionLoop: after the sleep the backoff doubles, up to maxBackoff.
ClientBackoff ==
    /\ Running
    /\ cl.pc = "sleep"
    /\ cl' = [cl EXCEPT !.pc = "loop", !.backoff = Min(cl.backoff * 2, 60)]
    /\ UNCHANGED <<now, file, writes, activeConfig, configSource, lastChecksum, lastReload,
                   boot, mode, hconfig, poll, conn, inbox, sent, pushes, rd, gr, published,
                   lastReplaced, breakerVars, proxyVars, routerVars, stop, ctlVars>>

\* The remote side writes a message on the connection.
RemotePush(m) ==
    /\ conn = "open"
    /\ pushes < MaxPushes
    /\ inbox' = Append(inbox, m)
    /\ pushes' = pushes + 1
    /\ UNCHANGED <<now, file, writes, activeConfig, configSource, lastChecksum, lastReload,
                   boot, mode, hconfig, poll, cl, conn, sent, rd, gr, published,
                   lastReplaced, breakerVars, proxyVars, routerVars, stop, ctlVars>>

\* The remote side goes away.
RemoteClose ==
    /\ conn = "open"
    /\ conn' = "lost"
    /\ UNCHANGED <<now, file, writes, activeConfig, configSource, lastChecksum, lastReload,
                   boot, mode, hconfig, poll, cl, inbox, sent, pushes, rd, gr, published,
                   lastReplaced, breakerVars, proxyVars, routerVars, stop, ctlVars>>

\* handleMessages: ReadMessage fails, on a connection closed by Stop once the
\* frames in its read buffer are used up, on one the remote side left once
\* every frame it sent was read; back to connectionLoop.
ClientReadError ==
    /\ Running
    /\ cl.pc = "read"
    /\ conn = "closed" \/ (conn = "lost" /\ inbox = <<>>)
    /\ cl' = [cl EXCEPT !.pc = "loop"]
    /\ UNCHANGED <<now, file, writes, activeConfig, configSource, lastChecksum, lastReload,
                   boot, mode, hconfig, poll, conn, inbox, sent, pushes, rd, gr, published,
                   lastReplaced, breakerVars, proxyVars, routerVars, stop, ctlVars>>

\* handleMessages: one message read and dispatched; on a connection that
\* Stop has closed ReadMessage still returns the frames that had arrived in
\* the connection's read buffer.  Bytes that are no JSON
\* and unknown types are logged; a config_snapshot goes to
\* handleConfigSnapshot, which calls sendNack when the bytes are no
\* ConfigSnapshotMessage and otherwise ApplyConfig.  answering keeps the
\* version of the snapshot that is being answered.
ClientRead ==
    /\ Running
    /\ cl.pc = "read" /\ inbox # <<>>
    /\ LET m == Head(inbox)
       IN  /\ inbox' = Tail(inbox)
           /\ IF ~m.json \/ m.Type # MessageTypeConfigSnapshot
              THEN /\ cl' = [cl EXCEPT !.handled = "ignored"]
                   /\ sent' = sent
              ELSE IF ~m.shapeOK
              THEN /\ cl' = [cl EXCEPT !.pc = "nack", !.handled = "rejecting",
                                       !.answering = m.Version]
                   /\ sent' = sent
              ELSE /\ cl' = [cl EXCEPT !.pc = "apply_config", !.cfg = SnapshotConfig(m),
                                       !.before = activeConfig, !.handled = "applying",
                                       !.answering = m.Version]
                   /\ sent' = sent
    /\ UNCHANGED <<now, file, writes, activeConfig, configSource, lastChecksum, lastReload,
                   boot, mode, hconfig, poll, conn, pushes, rd, gr, published,
                   lastReplaced, breakerVars, proxyVars, routerVars, stop, ctlVars>>

\* sendNack after a failed unmarshal of the snapshot: c.conn is read under
\* the mutex and the nack is written on it afterwards; the write fails on a
\* connection that Stop has closed meanwhile.
ClientNack ==
    /\ Running
    /\ cl.pc = "nack"
    /\ sent' = WriteMessage(NackMessage("cannot unmarshal"))
    /\ cl' = [cl EXCEPT !.pc = "read", !.handled = "nack"]
    /\ UNCHANGED <<now, file, writes, activeConfig, configSource, lastChecksum, lastReload,
                   boot, mode, hconfig, poll, conn, inbox, pushes, rd, gr, published,
                   lastReplaced, breakerVars, proxyVars, routerVars, stop, ctlVars>>

\* ApplyConfig: l.activeConfig.Store(cfg)
ClientApplyConfig ==
    /\ Running
    /\ cl.pc = "apply_config"
    /\ activeConfig' = cl.cfg
    /\ published' = published \cup {cl.cfg}
    /\ cl' = [cl EXCEPT !.pc = "apply_source"]
    /\ UNCHANGED <<now, file, writes, configSource, lastChecksum, lastReload, boot, mode,
                   hconfig, poll, conn, inbox, sent, pushes, rd, gr, lastReplaced,
                   breakerVars, proxyVars, routerVars, stop, ctlVars>>

\* ApplyConfig: l.configSource.Store(SourceControlPlane)
ClientApplySource ==
    /\ Running
    /\ cl.pc = "apply_source"
    /\ configSource' = SourceControlPlane
    /\ cl' = [cl EXCEPT !.pc = "apply_time"]
    /\ UNCHANGED <<now, file, writes, activeConfig, lastChecksum, lastReload, boot, mode,
                   hconfig, poll, conn, inbox, sent, pushes, rd, gr, published, lastReplaced,
                   breakerVars, proxyVars, routerVars, stop, ctlVars>>

\* ApplyConfig: l.lastReload.Store(time.Now()); ApplyConfig returns.
ClientApplyTime ==
    /\ Running
    /\ cl.pc = "apply_time"
    /\ lastReload' = now
    /\ lastReplaced' = cl.cfg
    /\ cl' = [cl EXCEPT !.pc = "reply"]
    /\ UNCHANGED <<now, file, writes, activeConfig, configSource, lastChecksum, boot, mode,
                   hconfig, poll, conn, inbox, sent, pushes, rd, gr, published,
                   breakerVars, proxyVars, routerVars, stop, ctlVars>>

\* handleConfigSnapshot after ApplyConfig: a nack on an error, else an ack.
ClientReply ==
    /\ Running
    /\ cl.pc = "reply"
    /\ LET err == ApplyConfigError(cl.cfg)
       IN  /\ sent' = WriteMessage(IF err # "" THEN NackMessage(err) ELSE AckMessage)
           /\ cl' = [cl EXCEPT !.pc = "read",
                               !.handled = IF err # "" THEN "nack" ELSE "ack"]
    /\ UNCHANGED <<now, file, writes, activeConfig, configSource, lastChecksum, lastReload,
                   boot, mode, hconfig, poll, conn, inbox, pushes, rd, gr, published,
                   lastReplaced, breakerVars, proxyVars, routerVars, stop, ctlVars>>

\* ---- routing.Router over the Loader, as wired in main ------------------
ReasonDedicated == "dedicated"
ReasonTier == "tier"
ReasonDefault == "default"

\* Mutant of isTier: tier2 is not taken as a shared tier.
isTier_NoTier2(placementKey) == placementKey \in {"tier1", "tier3"}

\* Router.isTier
isTier(placementKey) == placementKey \in {"tier1", "tier2", "tier3"}

\* Router.determineReason
determineReason(routingKey, placementKey, found) ==
    IF ~found \/ routingKey = "" THEN ReasonDefault
    ELSE IF isTier(placementKey) THEN ReasonTier
    ELSE ReasonDedicated

\* Router.Route on the three values it got from its ConfigProvider.
Route(routingKey, routingTable, cellEndpoints, defaultPlacement) ==
    LET found == routingKey \in DOMAIN routingTable
        placementKey == IF ~found \/ routingKey = "" THEN defaultPlacement
                        ELSE routingTable[routingKey]
        reason == determineReason(routingKey, placementKey, found)
    IN  IF placementKey \notin DOMAIN cellEndpoints
        THEN [err |-> TRUE, PlacementKey |-> placementKey, Reason |-> reason, EndpointURL |-> ""]
        ELSE [err |-> FALSE, PlacementKey |-> placementKey, Reason |-> reason,
              EndpointURL |-> cellEndpoints[placementKey]]

\* Loader.GetRoutingTable, GetCellEndpoints, GetDefaultPlacement: each one
\* GetConfig and one field of the result.
LoaderGetRoutingTable == GetConfig.RoutingTable
LoaderGetCellEndpoints == GetConfig.CellEndpoints
LoaderGetDefaultPlacement == GetConfig.DefaultPlacement

RoutingKeys == {"acme", "nobody"}

\* ServeHTTP up to Router.Route's first read: GetRoutingTable.
RdRoutingTable(key) ==
    /\ Running
    /\ boot.pc = "serving" /\ rd.pc = "idle"
    /\ rd' = [IdleReader EXCEPT !.pc = "endpoints", !.key = key,
                                !.rt = LoaderGetRoutingTable, !.rtFrom = GetConfig]
    /\ UNCHANGED <<now, file, writes, activeConfig, configSource, lastChecksum, lastReload,
                   boot, mode, hconfig, poll, cl, conn, inbox, sent, pushes, gr, published,
                   lastReplaced, breakerVars, proxyVars, routerVars, stop, ctlVars>>

\* Router.Route: GetCellEndpoints.
RdCellEndpoints ==
    /\ Running
    /\ rd.pc = "endpoints"
    /\ rd' = [rd EXCEPT !.pc = "default", !.ep = LoaderGetCellEndpoints, !.epFrom = GetConfig]
    /\ UNCHANGED <<now, file, writes, activeConfig, configSource, lastChecksum, lastReload,
                   boot, mode, hconfig, poll, cl, conn, inbox, sent, pushes, gr, published,
                   lastReplaced, breakerVars, proxyVars, routerVars, stop, ctlVars>>

\* Router.Route: GetDefaultPlacement, then the decision.
RdDefaultPlacement ==
    /\ Running
    /\ rd.pc = "default"
    /\ LET def == LoaderGetDefaultPlacement
           decision == Route(rd.key, rd.rt, rd.ep, def)
       IN  rd' = [rd EXCEPT !.pc = IF decision.err THEN "done" ELSE "routed",
                            !.def = def, !.defFrom = GetConfig,
                            !.err = decision.err, !.placement = decision.PlacementKey]
    /\ UNCHANGED <<now, file, writes, activeConfig, configSource, lastChecksum, lastReload,
                   boot, mode, hconfig, poll, cl, conn, inbox, sent, pushes, gr, published,
                   lastReplaced, breakerVars, proxyVars, routerVars, stop, ctlVars>>

\* ServeHTTP with the circuit open or the placement unhealthy: the fallback
\* and the default placement are read from h.config.
RdFallback ==
    /\ Running
    /\ rd.pc = "routed"
    /\ rd' = [rd EXCEPT !.pc = "done",
                        !.fallback = GetPlacementConfig(hconfig, rd.placement).cfg.Fallback,
                        !.fbFrom = hconfig]
    /\ UNCHANGED <<now, file, writes, activeConfig, configSource, lastChecksum, lastReload,
                   boot, mode, hconfig, poll, cl, conn, inbox, sent, pushes, gr, published,
                   lastReplaced, breakerVars, proxyVars, routerVars, stop, ctlVars>>

\* ServeHTTP with the circuit closed and the placement healthy: no fallback
\* is looked up.
RdNoFallback ==
    /\ Running
    /\ rd.pc = "routed"
    /\ rd' = [rd EXCEPT !.pc = "done", !.fbFrom = rd.rtFrom]
    /\ UNCHANGED <<now, file, writes, activeConfig, configSource, lastChecksum, lastReload,
                   boot, mode, hconfig, poll, cl, conn, inbox, sent, pushes, gr, published,
                   lastReplaced, breakerVars, proxyVars, routerVars, stop, ctlVars>>

\* The request ends.
RdDone ==
    /\ Running
    /\ rd.pc = "done"
    /\ rd' = IdleReader
    /\ UNCHANGED <<now, file, writes, activeConfig, configSource, lastChecksum, lastReload,
                   boot, mode, hconfig, poll, cl, conn, inbox, sent, pushes, gr, published,
                   lastReplaced, breakerVars, proxyVars, routerVars, stop, ctlVars>>

\* ---- a reader of Loader.GetConfig --------------------------------------
\* The fields a reader takes from the config it holds, in the order of
\* Server.sendConfigToClient.
ReadOrder == <<"Version", "RoutingTable", "CellEndpoints", "DefaultPlacement">>

\* Mutant of ReadField: every field is read through a fresh GetConfig.
ReadField_Reload(h, f) == GetConfig[f]

\* cfg.<f> for the pointer cfg that GetConfig returned earlier.
ReadField(h, f) == h[f]

\* cfg := loader.GetConfig()
GrGetConfig ==
    /\ Running
    /\ boot.pc \in {"handler", "serving"} /\ gr.pc = "idle"
    /\ gr' = [pc |-> "read", h |-> GetConfig, msg |-> <<>>]
    /\ UNCHANGED <<now, file, writes, activeConfig, configSource, lastChecksum, lastReload,
                   boot, mode, hconfig, poll, cl, conn, inbox, sent, pushes, rd, published,
                   lastReplaced, breakerVars, proxyVars, routerVars, stop, ctlVars>>

\* The next field of cfg is read.
GrReadField ==
    /\ Running
    /\ gr.pc = "read"
    /\ LET f == ReadOrder[Len(gr.msg) + 1]
           msg == Append(gr.msg, ReadField(gr.h, f))
       IN  gr' = [gr EXCEPT !.msg = msg,
                            !.pc = IF Len(msg) = Len(ReadOrder) THEN "done" ELSE "read"]
    /\ UNCHANGED <<now, file, writes, activeConfig, configSource, lastChecksum, lastReload,
                   boot, mode, hconfig, poll, cl, conn, inbox, sent, pushes, rd, published,
                   lastReplaced, breakerVars, proxyVars, routerVars, stop, ctlVars>>

\* The reader is done with the config.
GrDone ==
    /\ Running
    /\ gr.pc = "done"
    /\ gr' = IdleGetter
    /\ UNCHANGED <<now, file, writes, activeConfig, configSource, lastChecksum, lastReload,
                   boot, mode, hconfig, poll, cl, conn, inbox, sent, pushes, rd, published,
                   lastReplaced, breakerVars, proxyVars, routerVars, stop, ctlVars>>

(***************************************************************************)
(* proxy.Handler: NewHandler and ServeHTTP with the limits manager, the    *)
(* circuit manager and the health checker.                                 *)
(***************************************************************************)
\* circuit.NewManager(circuit.Config{FailureThreshold: 5, Timeout: 30s}).
DefaultFailureThreshold == 5
DefaultTimeout == 30
ManagerConfig == [FailureThreshold |-> DefaultFailureThreshold, Timeout |-> DefaultTimeout]

\* Both shapes at once: tier1 has a fallback, a health check, a circuit
\* breaker of threshold 3 and limits; tier3 is the default placement.
CfgResilient ==
    MkConfig("8", ("acme" :> "tier1"),
             ("tier1" :> "http://u-t1") @@ ("tier3" :> "http://u-t3"),
             ("tier1" :> Placement("http://u-t1", "tier3",
                                   Ptr([Path |-> "/health", Interval |-> "10s", Timeout |-> "2s"]),
                                   Ptr([FailureThreshold |-> 3, Timeout |-> "30s"]), 1, 10))
             @@ ("tier3" :> Placement("http://u-t3", "", Nil, Nil, 0, 0)),
             "tier3")

\* The same without fallback and health check on tier1, and with room for two
\* requests at a time.
CfgNoFallback ==
    MkConfig("9", ("acme" :> "tier1"),
             ("tier1" :> "http://u-t1") @@ ("tier3" :> "http://u-t3"),
             ("tier1" :> Placement("http://u-t1", "", Nil,
                                   Ptr([FailureThreshold |-> 3, Timeout |-> "30s"]), 2, 10))
             @@ ("tier3" :> Placement("http://u-t3", "", Nil, Nil, 0, 0)),
             "tier3")

\* A chain: tier1 falls back to tier2, which has no fallback and is not the
\* default placement; no placement has a health check, a circuit breaker
\* section or a concurrency limit.
CfgCascade ==
    MkConfig("10", ("acme" :> "tier1") @@ ("beta" :> "tier2"),
             ("tier1" :> "http://u-t1") @@ ("tier2" :> "http://u-t2")
             @@ ("tier3" :> "http://u-t3"),
             ("tier1" :> Placement("http://u-t1", "tier2", Nil, Nil, 0, 0))
             @@ ("tier2" :> Placement("http://u-t2", "", Nil, Nil, 0, 10))
             @@ ("tier3" :> Placement("http://u-t3", "", Nil, Nil, 0, 0)),
             "tier3")

ProxyConfigs == {CfgResilient, CfgNoFallback, CfgExtended}
PlacementKeys == {"tier1", "tier2", "tier3"}
ProxyRoutingKeys == {"", "acme"}
ContentLengths == {0, 5, 20}

\* The orders in which range visits the keys of endpoints.
RECURSIVE Orders(_)
Orders(S) ==
    IF S = {} THEN {<<>>}
    ELSE UNION {{<<x>> \o o : o \in Orders(S \ {x})} : x \in S}

\* configureResilienceMechanisms, health part: the placements registered in
\* the checker that h.healthChecker names after the loop over order, given
\* those registered in it so far.
RECURSIVE ConfigureHealth(_, _, _)
ConfigureHealth(cfg, order, registered) ==
    IF order = <<>> THEN registered
    ELSE LET placementKey == Head(order)
             pc == GetPlacementConfig(cfg, placementKey)
         IN  IF pc.exists /\ pc.cfg.HealthCheck # Nil
             THEN IF HealthCheckParse(pc.cfg.HealthCheck[1]).err = ""
                  THEN ConfigureHealth(cfg, Tail(order), {placementKey})
                  ELSE ConfigureHealth(cfg, Tail(order), registered)
             ELSE ConfigureHealth(cfg, Tail(order), registered \cup {placementKey})

\* The placements h.healthChecker checks.
Registered == healthEndpoints

\* configureResilienceMechanisms, limits part: limits.Manager.config and the
\* capacity of each semaphore after the SetConfig calls.
LimitsConfig(cfg) ==
    LET keys == {k \in DOMAIN GetCellEndpoints(cfg) :
                    /\ GetPlacementConfig(cfg, k).exists
                    /\ \/ GetPlacementConfig(cfg, k).cfg.ConcurrencyLimit > 0
                       \/ GetPlacementConfig(cfg, k).cfg.MaxRequestBodyBytes > 0}
    IN  [k \in keys |->
            [MaxConcurrentRequests |-> GetPlacementConfig(cfg, k).cfg.ConcurrencyLimit,
             MaxRequestBodyBytes |-> GetPlacementConfig(cfg, k).cfg.MaxRequestBodyBytes]]

Semaphores(cfg) ==
    LET lc == LimitsConfig(cfg)
        keys == {k \in DOMAIN lc : lc[k].MaxConcurrentRequests > 0}
    IN  [k \in keys |-> lc[k].MaxConcurrentRequests]

\* Mutant of TryAcquire: a full semaphore takes one more slot.
TryAcquire_OneMore(h, placementKey) ==
    IF placementKey \notin DOMAIN Semaphores(hconfig) THEN [held |-> h, ok |-> TRUE]
    ELSE IF h[placementKey] <= Semaphores(hconfig)[placementKey]
    THEN [held |-> [h EXCEPT ![placementKey] = @ + 1], ok |-> TRUE]
    ELSE [held |-> h, ok |-> FALSE]

\* limits.Manager.TryAcquire on the slots held h: the slots afterwards and
\* the value returned.
TryAcquire(h, placementKey) ==
    IF placementKey \notin DOMAIN Semaphores(hconfig) THEN [held |-> h, ok |-> TRUE]
    ELSE IF h[placementKey] < Semaphores(hconfig)[placementKey]
    THEN [held |-> [h EXCEPT ![placementKey] = @ + 1], ok |-> TRUE]
    ELSE [held |-> h, ok |-> FALSE]

\* limits.Manager.Release: a receive from the semaphore's channel, which
\* blocks while no slot is held.
ReleaseBlocks(h, placementKey) ==
    placementKey \in DOMAIN Semaphores(hconfig) /\ h[placementKey] = 0
Release(h, placementKey) ==
    IF placementKey \in DOMAIN Semaphores(hconfig)
    THEN [h EXCEPT ![placementKey] = @ - 1]
    ELSE h

\* limits.Manager.ValidateRequestBodySize: TRUE when size is rejected.
ValidateRequestBodySize(placementKey, size) ==
    LET lc == LimitsConfig(hconfig)
    IN  /\ placementKey \in DOMAIN lc
        /\ lc[placementKey].MaxRequestBodyBytes # 0
        /\ size > lc[placementKey].MaxRequestBodyBytes

\* circuit.Manager.GetBreaker: the map afterwards; the breaker is bs[key].
GetBreaker(bs, placementKey, t) ==
    IF bs[placementKey] # Nil THEN bs
    ELSE [bs EXCEPT ![placementKey] = Ptr(NewBreaker(ManagerConfig, t))]

\* health.Checker.IsHealthy: unknown endpoints are taken as healthy.
IsHealthy(placementKey) ==
    placementKey \notin Registered \/ placementKey \notin unhealthy

\* A request: its position in ServeHTTP, the key of the deferred Release
\* ("" while no Release is deferred), the key whose breaker it took,
\* decision.PlacementKey, decision.Reason, failoverReason, the number of
\* times client.Do ran for it, the result of client.Do while proxyRequest
\* runs, what proxyRequest returned to ServeHTTP, the response it is about to
\* write and the entry it is about to log.
NoReturn == [status |-> 0, err |-> FALSE, timeout |-> FALSE]
NoHeaders == [h \in {} |-> ""]
NoResponse == [status |-> 0, headers |-> NoHeaders]
NoLog == [status |-> 0, reason |-> ""]
NoOutcome == [status |-> 0, err |-> FALSE, timeout |-> FALSE, panic |-> FALSE, hdr |-> NoHeaders]
IdleRequest ==
    [pc |-> "idle", acquired |-> "", origin |-> "", placement |-> "", routeReason |-> "",
     reason |-> "", calls |-> 0, out |-> NoOutcome, ret |-> NoReturn,
     resp |-> NoResponse, entry |-> NoLog]
Goroutines == {"g1", "g2"}

\* Handler.logRequest: the entry's status code and failover reason.
logRequest(statusCode, failoverReason) == [status |-> statusCode, reason |-> failoverReason]

\* Header names of handler.go.
headerRequestID == "X-Request-Id"
headerRoutedTo == "X-Routed-To"
headerRouteReason == "X-Route-Reason"
headerFailoverReason == "X-Failover-Reason"
headerCircuitState == "X-Circuit-State"

\* The results client.Do and the copy of the reply can have: a reply that was
\* copied to the client (with or without an X-Request-Id header of the
\* upstream's own), an upstream 500, no reply at all (dial error, client
\* gone), no reply within ResponseHeaderTimeout, a reply whose copy to the
\* client failed, and a reply with a status code below 100, for which
\* w.WriteHeader panics.
Outcomes ==
    {[status |-> 200, err |-> FALSE, timeout |-> FALSE, panic |-> FALSE, hdr |-> NoHeaders],
     [status |-> 200, err |-> FALSE, timeout |-> FALSE, panic |-> FALSE,
      hdr |-> (headerRequestID :> "upstream")],
     [status |-> 500, err |-> FALSE, timeout |-> FALSE, panic |-> FALSE, hdr |-> NoHeaders],
     [status |-> 0,   err |-> TRUE,  timeout |-> FALSE, panic |-> FALSE, hdr |-> NoHeaders],
     [status |-> 0,   err |-> TRUE,  timeout |-> TRUE,  panic |-> FALSE, hdr |-> NoHeaders],
     [status |-> 200, err |-> TRUE,  timeout |-> FALSE, panic |-> FALSE, hdr |-> NoHeaders],
     [status |-> 0,   err |-> FALSE, timeout |-> FALSE, panic |-> TRUE,  hdr |-> NoHeaders]}

\* proxyRequest after client.Do returned a reply: the headers of the response,
\* the upstream's own first, then the ones the proxy sets; circuitState is
\* GetBreaker(decision.PlacementKey).GetState().
ResponseHeaders(r, out, circuitState) ==
    (headerRoutedTo :> r.placement) @@ (headerRouteReason :> r.routeReason)
    @@ (IF r.reason # "" THEN (headerFailoverReason :> r.reason) ELSE NoHeaders)
    @@ (headerCircuitState :> circuitState)
    @@ out.hdr

\* statusCode, err := h.proxyRequest(...): the status and the error returned
\* for result out of client.Do and of the copy of the reply.
Returned(out) == [status |-> out.status, err |-> out.err, timeout |-> out.timeout]

\* ServeHTTP after proxyRequest: the status the client gets; 502 is written
\* when proxyRequest failed before it wrote anything.
FinalStatus(out) == IF out.err /\ out.status = 0 THEN 502 ELSE out.status

\* Mutant of AfterProxy: a failed call is made again.
AfterProxy_Retry(out) == IF out.err \/ out.status >= 500 THEN "proxy" ELSE "release"

\* ServeHTTP after proxyRequest returned out: it records, logs and returns,
\* whatever the result.
AfterProxy(out) == "release"

\* http.Error or w.WriteHeader: a response is written; it is kept where
\* responses are observed.
WriteResponse(response) ==
    lastResponse' = IF lastResponse = Nil THEN Nil ELSE response

\* Mutant of ReleaseKey: the deferred Release reads placementKey when it runs.
ReleaseKey_AtExit(r) == r.placement

\* defer h.limitsManager.Release(placementKey): the argument is evaluated at
\* the defer statement.
ReleaseKey(r) == r.acquired

\* breaker := h.circuitManager.GetBreaker(placementKey), before any failover;
\* the outcome is recorded on this breaker.
RecordKey(r) == r.origin

\* The placements of c that have a circuit_breaker section.
BreakerConfigured(c) == {k \in DOMAIN c.Placements : c.Placements[k].CircuitBreaker # Nil}

\* State of the handler after NewHandler(router, c, logger) with range order o.
ProxyInit(c, o) ==
    /\ breakers = [k \in DOMAIN GetCellEndpoints(c) |-> Nil]
    /\ held = [k \in DOMAIN Semaphores(c) |-> 0]
    /\ unhealthy = {}
    /\ healthEndpoints = ConfigureHealth(c, o, {})
    /\ reqs = [g \in Goroutines |-> IdleRequest]
    /\ lastLog = NoLog
    /\ streak = [k \in BreakerConfigured(c) |-> 0]

\* A request arrives on goroutine g; goroutines are taken in order.
Free(g) ==
    /\ reqs[g].pc = "idle"
    /\ g = "g2" => reqs["g1"].pc # "idle"

\* Request r goes on at pc with a response to write and an entry to log.
Answering(r, pc, response, logEntry) ==
    [r EXCEPT !.pc = pc, !.resp = response, !.entry = logEntry]

\* ServeHTTP from its start to its first access to what the requests share:
\* without routing key http.Error(400), on a routing error http.Error(500),
\* else TryAcquire, which admits the request (the Release is deferred) or
\* refuses it.
PStart(g, routingKey) ==
    /\ Running
    /\ Free(g)
    /\ IF routingKey = ""
       THEN /\ WriteResponse([status |-> 400, headers |-> NoHeaders])
            /\ reqs' = [reqs EXCEPT ![g] =
                   Answering(IdleRequest, "log", NoResponse, logRequest(400, ""))]
            /\ held' = held
       ELSE LET decision == Route(routingKey, LoaderGetRoutingTable, LoaderGetCellEndpoints,
                                  LoaderGetDefaultPlacement)
                a == TryAcquire(held, decision.PlacementKey)
            IN  IF decision.err
                THEN /\ WriteResponse([status |-> 500, headers |-> NoHeaders])
                     /\ reqs' = [reqs EXCEPT ![g] =
                            Answering(IdleRequest, "log", NoResponse, logRequest(500, ""))]
                     /\ held' = held
                ELSE IF ~a.ok
                THEN /\ reqs' = [reqs EXCEPT ![g] =
                            Answering(IdleRequest, "respond",
                                      [status |-> 429, headers |-> NoHeaders],
                                      logRequest(429, "concurrency_limit"))]
                     /\ UNCHANGED <<held, lastResponse>>
                ELSE /\ reqs' = [reqs EXCEPT ![g] =
                                    [IdleRequest EXCEPT !.pc = "admitted",
                                                        !.acquired = decision.PlacementKey,
                                                        !.origin = decision.PlacementKey,
                                                        !.placement = decision.PlacementKey,
                                                        !.routeReason = decision.Reason]]
                     /\ held' = a.held
                     /\ lastResponse' = lastResponse
    /\ UNCHANGED <<now, storeVars, breakerVars, routerVars, stop, ctlVars, breakers, unhealthy,
                   healthEndpoints, lastLog, streak>>

\* ServeHTTP: the body size check, with http.Error(413) when it fails, else
\* h.circuitManager.GetBreaker(placementKey), under the manager's mutex.
PCircuit(g, size) ==
    /\ Running
    /\ reqs[g].pc = "admitted"
    /\ LET r == reqs[g]
       IN  IF size > 0 /\ ValidateRequestBodySize(r.placement, size)
           THEN /\ WriteResponse([status |-> 413, headers |-> NoHeaders])
                /\ reqs' = [reqs EXCEPT ![g] =
                       Answering(r, "log", NoResponse, logRequest(413, "body_size_limit"))]
                /\ breakers' = breakers
           ELSE /\ breakers' = GetBreaker(breakers, r.placement, now)
                /\ reqs' = [reqs EXCEPT ![g] = [r EXCEPT !.pc = "allow"]]
                /\ lastResponse' = lastResponse
    /\ UNCHANGED <<now, storeVars, breakerVars, routerVars, stop, ctlVars, held, unhealthy,
                   healthEndpoints, lastLog, streak>>

\* ServeHTTP: breaker.Allow(), under the breaker's mutex, and the fallback of
\* an open circuit; a refused request without fallback goes on to its 503.
PAllow(g) ==
    /\ Running
    /\ reqs[g].pc = "allow"
    /\ LET r == reqs[g]
           res == Allow(breakers[RecordKey(r)][1], now)
           pcfg == GetPlacementConfig(hconfig, r.placement)
       IN  /\ breakers' = [breakers EXCEPT ![RecordKey(r)] = Ptr(res.b)]
           /\ reqs' = [reqs EXCEPT ![g] =
                  IF res.ok THEN [r EXCEPT !.pc = "health"]
                  ELSE IF pcfg.exists /\ pcfg.cfg.Fallback # ""
                  THEN [r EXCEPT !.pc = "health", !.placement = pcfg.cfg.Fallback,
                                 !.reason = "circuit_open"]
                  ELSE [r EXCEPT !.pc = "reject"]]
    /\ UNCHANGED <<now, storeVars, breakerVars, routerVars, stop, ctlVars, held, unhealthy,
                   healthEndpoints, lastLog, lastResponse, streak>>

\* ServeHTTP, no fallback for the refused request: breaker.GetState() is read
\* for the X-Circuit-State header, under the breaker's mutex taken anew.
PReject(g) ==
    /\ Running
    /\ reqs[g].pc = "reject"
    /\ LET r == reqs[g]
       IN  reqs' = [reqs EXCEPT ![g] =
               Answering(r, "respond",
                         [status |-> 503,
                          headers |-> (headerCircuitState :> GetState(breakers[RecordKey(r)][1]))],
                         logRequest(503, "circuit_open"))]
    /\ UNCHANGED <<now, storeVars, breakerVars, routerVars, stop, ctlVars, breakers, held,
                   unhealthy, healthEndpoints, lastLog, lastResponse, streak>>

\* ServeHTTP: http.Error writes the 429, the 503 or the 502 the request has
\* prepared; nothing is locked.
PRespond(g) ==
    /\ Running
    /\ reqs[g].pc = "respond"
    /\ WriteResponse(reqs[g].resp)
    /\ reqs' = [reqs EXCEPT ![g] = [@ EXCEPT !.pc = "log", !.resp = NoResponse]]
    /\ UNCHANGED <<now, storeVars, breakerVars, routerVars, stop, ctlVars, breakers, held,
                   unhealthy, healthEndpoints, lastLog, streak>>

\* ServeHTTP: h.logRequest writes the entry of the request, and ServeHTTP
\* returns: at once when no Release is deferred.
PLog(g) ==
    /\ Running
    /\ reqs[g].pc = "log"
    /\ lastLog' = reqs[g].entry
    /\ LET r == reqs[g]
       IN  reqs' = [reqs EXCEPT ![g] =
               IF r.acquired = "" THEN IdleRequest
               ELSE IF AfterProxy(r.ret) = "release"
               THEN [IdleRequest EXCEPT !.pc = "release", !.acquired = r.acquired,
                                        !.placement = r.placement, !.calls = r.calls]
               ELSE [r EXCEPT !.pc = AfterProxy(r.ret), !.ret = NoReturn, !.entry = NoLog]]
    /\ UNCHANGED <<now, storeVars, breakerVars, routerVars, stop, ctlVars, breakers, held,
                   unhealthy, healthEndpoints, lastResponse, streak>>

\* Mutant of UnhealthyTarget: the fallback is not looked at.
UnhealthyTarget_DefaultOnly(placementKey) ==
    LET defaultPlacement == hconfig.DefaultPlacement
    IN  IF defaultPlacement # placementKey
        THEN [placement |-> defaultPlacement, reason |-> "upstream_unhealthy"]
        ELSE [placement |-> placementKey, reason |-> ""]

\* ServeHTTP when IsHealthy(placementKey) is false: the placement the request
\* goes to and the failover reason it sets ("" when it sets none).
UnhealthyTarget(placementKey) ==
    LET pcfg == GetPlacementConfig(hconfig, placementKey)
        defaultPlacement == hconfig.DefaultPlacement
    IN  IF pcfg.exists /\ pcfg.cfg.Fallback # ""
        THEN [placement |-> pcfg.cfg.Fallback, reason |-> "upstream_unhealthy"]
        ELSE IF defaultPlacement # placementKey
        THEN [placement |-> defaultPlacement, reason |-> "upstream_unhealthy"]
        ELSE [placement |-> placementKey, reason |-> ""]

\* ServeHTTP: IsHealthy and the failover of an unhealthy placement.
PHealth(g) ==
    /\ Running
    /\ reqs[g].pc = "health"
    /\ LET r == reqs[g]
           t == UnhealthyTarget(r.placement)
       IN  reqs' = [reqs EXCEPT ![g] =
               IF IsHealthy(r.placement) THEN [r EXCEPT !.pc = "proxy"]
               ELSE [r EXCEPT !.pc = "proxy", !.placement = t.placement,
                              !.reason = IF t.reason # "" THEN t.reason ELSE @]]
    /\ UNCHANGED <<now, storeVars, breakerVars, routerVars, stop, ctlVars, breakers, held, unhealthy, healthEndpoints, lastLog,
                   lastResponse, streak>>

\* client.Do returned a reply: its status code may be one w.WriteHeader
\* panics on.
Replied(out) == out.status # 0 \/ out.panic

\* proxyRequest up to its first access to what the requests share: client.Do
\* runs once with result out; without a reply proxyRequest returns (0, err);
\* on a reply the upstream's headers and the explainability headers are set
\* and h.circuitManager.GetBreaker(decision.PlacementKey) is taken, under the
\* manager's mutex.  Upstreams stop failing once the breaker that takes the
\* outcome has counted MaxFailures.
PProxy(g, out) ==
    /\ Running
    /\ reqs[g].pc = "proxy"
    /\ LET r == reqs[g]
           failed == out.err \/ out.status >= 500
       IN  /\ failed => breakers[RecordKey(r)][1].failures < MaxFailures
           /\ IF Replied(out)
              THEN /\ reqs' = [reqs EXCEPT ![g] =
                          [r EXCEPT !.pc = "state", !.calls = r.calls + 1, !.out = out]]
                   /\ breakers' = GetBreaker(breakers, r.placement, now)
              ELSE /\ reqs' = [reqs EXCEPT ![g] =
                          [r EXCEPT !.pc = "record", !.calls = r.calls + 1,
                                    !.ret = Returned(out)]]
                   /\ breakers' = breakers
    /\ UNCHANGED <<now, storeVars, breakerVars, routerVars, stop, ctlVars, held, unhealthy,
                   healthEndpoints, lastLog, lastResponse, streak>>

\* proxyRequest: breaker.GetState() is read for the X-Circuit-State header,
\* under the breaker's mutex.
PGetState(g) ==
    /\ Running
    /\ reqs[g].pc = "state"
    /\ LET r == reqs[g]
       IN  reqs' = [reqs EXCEPT ![g] =
               [r EXCEPT !.pc = "header",
                         !.resp = [status |-> r.out.status,
                                   headers |-> ResponseHeaders(r, r.out,
                                                   GetState(breakers[r.placement][1]))]]]
    /\ UNCHANGED <<now, storeVars, breakerVars, routerVars, stop, ctlVars, breakers, held,
                   unhealthy, healthEndpoints, lastLog, lastResponse, streak>>

\* proxyRequest: w.WriteHeader writes the response, or panics on a status
\* code below 100 and ServeHTTP unwinds; then the body is copied and
\* proxyRequest returns the status and the error of the copy.
PWriteHeader(g) ==
    /\ Running
    /\ reqs[g].pc = "header"
    /\ LET r == reqs[g]
       IN  IF r.out.panic
           THEN /\ reqs' = [reqs EXCEPT ![g] =
                       [IdleRequest EXCEPT !.pc = "release", !.acquired = r.acquired,
                                           !.placement = r.placement, !.calls = r.calls]]
                /\ lastResponse' = lastResponse
           ELSE /\ reqs' = [reqs EXCEPT ![g] =
                       [r EXCEPT !.pc = "record", !.ret = Returned(r.out),
                                 !.out = NoOutcome, !.resp = NoResponse]]
                /\ WriteResponse(r.resp)
    /\ UNCHANGED <<now, storeVars, breakerVars, routerVars, stop, ctlVars, breakers, held,
                   unhealthy, healthEndpoints, lastLog, streak>>

\* ServeHTTP after proxyRequest returned: the outcome is recorded with
\* RecordFailure or RecordSuccess, under the mutex of the breaker taken
\* before any failover; a 502 is to be written when nothing was written yet.
PRecord(g) ==
    /\ Running
    /\ reqs[g].pc = "record"
    /\ LET r == reqs[g]
           failed == r.ret.err \/ r.ret.status >= 500
           b == breakers[RecordKey(r)][1]
       IN  /\ breakers' = [breakers EXCEPT ![RecordKey(r)] =
                  Ptr(IF failed THEN RecordFailure(b, now) ELSE RecordSuccess(b, now))]
           /\ streak' = IF r.placement \in DOMAIN streak
                        THEN [streak EXCEPT ![r.placement] =
                                 IF failed THEN Min(@ + 1, MaxFailures) ELSE 0]
                        ELSE streak
           /\ reqs' = [reqs EXCEPT ![g] =
                  IF r.ret.err /\ r.ret.status = 0
                  THEN Answering(r, "respond", [status |-> 502, headers |-> NoHeaders],
                                 logRequest(FinalStatus(r.ret), r.reason))
                  ELSE Answering(r, "log", NoResponse,
                                 logRequest(FinalStatus(r.ret), r.reason))]
    /\ UNCHANGED <<now, storeVars, breakerVars, routerVars, stop, ctlVars, held, unhealthy,
                   healthEndpoints, lastLog, lastResponse>>

\* ServeHTTP returns or unwinds: the deferred Release runs.
PRelease(g) ==
    /\ Running
    /\ reqs[g].pc = "release"
    /\ ~ReleaseBlocks(held, ReleaseKey(reqs[g]))
    /\ held' = Release(held, ReleaseKey(reqs[g]))
    /\ reqs' = [reqs EXCEPT ![g] = IdleRequest]
    /\ UNCHANGED <<now, storeVars, breakerVars, routerVars, stop, ctlVars, breakers, unhealthy, healthEndpoints, lastLog,
                   lastResponse, streak>>

\* health.Checker: the state of a healthEndpoints endpoint changes.
HealthChange(placementKey) ==
    /\ Running
    /\ placementKey \in Registered
    /\ unhealthy' = IF placementKey \in unhealthy THEN unhealthy \ {placementKey}
                    ELSE unhealthy \cup {placementKey}
    /\ UNCHANGED <<now, storeVars, breakerVars, routerVars, stop, ctlVars, breakers, held, healthEndpoints, reqs, lastLog,
                   lastResponse, streak>>

\* ---- dataplane.Client.Stop ------------------------------------------
\* Stop, under the mutex: reconnect = false and c.conn.Close() when c.conn
\* is not nil.
StopLock ==
    /\ Running
    /\ stop.pc = "idle" /\ cl.pc # "off"
    /\ stop' = [stop EXCEPT !.pc = "unlocked", !.reconnect = FALSE]
    /\ conn' = IF conn # "none" THEN "closed" ELSE conn
    /\ UNCHANGED <<now, file, writes, activeConfig, configSource, lastChecksum, lastReload,
                   boot, mode, hconfig, poll, cl, inbox, sent, pushes, rd, gr, published,
                   lastReplaced, breakerVars, proxyVars, routerVars, ctlVars>>

\* Stop: close(c.stopCh)
StopCloseCh ==
    /\ Running
    /\ stop.pc = "unlocked"
    /\ stop' = [stop EXCEPT !.pc = "waiting", !.stopCh = "closed"]
    /\ UNCHANGED <<now, storeVars, breakerVars, proxyVars, routerVars, ctlVars>>

\* Stop: <-c.done, which connectionLoop closes when it returns.
StopWait ==
    /\ Running
    /\ stop.pc = "waiting" /\ cl.pc = "exited"
    /\ stop' = [stop EXCEPT !.pc = "returned"]
    /\ UNCHANGED <<now, storeVars, breakerVars, proxyVars, routerVars, ctlVars>>

(***************************************************************************)
(* routing.Router over static maps: NewRouter and Route.                   *)
(***************************************************************************)
\* NewRouter(routingTable, cellEndpoints, defaultPlacement).
NewRouter(routingTable, cellEndpoints, defaultPlacement) ==
    [routingTable |-> routingTable, cellEndpoints |-> cellEndpoints,
     defaultPlacement |-> defaultPlacement]

NoDecision == [key |-> "", called |-> FALSE, result |-> Nil]

\* r.Route(routingKey) is called and returns.
RouterRoute(routingKey) ==
    /\ lastDecision' = [key |-> routingKey, called |-> TRUE,
                    result |-> Ptr(Route(routingKey, router.routingTable, router.cellEndpoints,
                                         router.defaultPlacement))]
    /\ UNCHANGED <<now, storeVars, breakerVars, proxyVars, router, stop, ctlVars>>

(***************************************************************************)
(* limits.Manager under arbitrary callers: any goroutine may ask for a slot *)
(* of any placement and gives back the slot it got.                         *)
(***************************************************************************)
\* The keys callers ask for: the placements of the configuration and one
\* that has no configuration at all.
LimitKeys == DOMAIN GetCellEndpoints(hconfig) \cup {"ghost"}

\* Goroutine g calls Manager.TryAcquire(placementKey).
LTryAcquire(g, placementKey) ==
    /\ Running
    /\ reqs[g].pc = "idle"
    /\ LET a == TryAcquire(held, placementKey)
       IN  /\ held' = a.held
           /\ reqs' = [reqs EXCEPT ![g] =
                  [IdleRequest EXCEPT !.pc = IF a.ok THEN "admitted" ELSE "rejected",
                                      !.acquired = placementKey]]
    /\ UNCHANGED <<now, storeVars, breakerVars, routerVars, stop, ctlVars, breakers, unhealthy, healthEndpoints, lastLog,
                   lastResponse, streak>>

\* Goroutine g, turned away, goes on without a slot.
LRejected(g) ==
    /\ Running
    /\ reqs[g].pc = "rejected"
    /\ reqs' = [reqs EXCEPT ![g] = IdleRequest]
    /\ UNCHANGED <<now, storeVars, breakerVars, routerVars, stop, ctlVars, breakers, held, unhealthy, healthEndpoints,
                   lastLog, lastResponse, streak>>

\* Goroutine g calls Manager.Release on the key it acquired.
LRelease(g) ==
    /\ Running
    /\ reqs[g].pc = "admitted"
    /\ ~ReleaseBlocks(held, reqs[g].acquired)
    /\ held' = Release(held, reqs[g].acquired)
    /\ reqs' = [reqs EXCEPT ![g] = IdleRequest]
    /\ UNCHANGED <<now, storeVars, breakerVars, routerVars, stop, ctlVars, breakers, unhealthy, healthEndpoints, lastLog,
                   lastResponse, streak>>

(***************************************************************************)
(* Parts of the state a specification does not use stay as they are here.  *)
(***************************************************************************)
LoaderIdle ==
    /\ file = FileMissing /\ writes = 0
    /\ activeConfig = EmptyConfig /\ configSource = "" /\ lastChecksum = Nil
    /\ lastReload = ZeroTime
    /\ boot = Nil /\ mode = "none" /\ hconfig = EmptyConfig
    /\ poll = Nil /\ cl = Nil /\ stop = Nil /\ dbg = Nil /\ conn = "none" /\ inbox = <<>> /\ sent = <<>>
    /\ pushes = 0 /\ rd = Nil /\ gr = Nil /\ published = {} /\ lastReplaced = EmptyConfig

StoreIdle == LoaderIdle /\ srv = Nil

RouterIdle == router = Nil /\ lastDecision = Nil

ProxyIdle ==
    /\ breakers = Nil /\ held = Nil /\ unhealthy = {} /\ healthEndpoints = {}
    /\ reqs = Nil /\ lastLog = Nil /\ lastResponse = Nil /\ streak = Nil

(***************************************************************************)
(* SpecBreaker                                                             *)
(***************************************************************************)
InitBreaker == now = 1 /\ BreakerInit /\ StoreIdle /\ ProxyIdle /\ RouterIdle

NextBreaker ==
    \/ \E c \in Callers : BAllow(c)
    \/ \E c \in Callers : BRecordSuccess(c)
    \/ \E c \in Callers : BRecordFailure(c)
    \/ BTick

SpecBreaker == InitBreaker /\ [][NextBreaker]_vars

\* A step of SpecBreaker that is a call on the breaker, and the call made.
BCall == bobs'.n # bobs.n
BOp == bobs'.op

\* C5: every change of a breaker's state is closed->open, open->half_open,
\* half_open->closed or half_open->open; never closed->half_open, never
\* open->closed.
C5_Transitions ==
    [][brk'.state # brk.state =>
          <<brk.state, brk'.state>> \in
              {<<StateClosed, StateOpen>>, <<StateOpen, StateHalfOpen>>,
               <<StateHalfOpen, StateClosed>>, <<StateHalfOpen, StateOpen>>}]_vars

\* C5 witness: a breaker that opened, became half-open and was closed again
\* by a recorded success.
C5_Witness ==
    /\ brk.state = StateClosed
    /\ bobs.op = "RecordSuccess"
    /\ bobs.pre = StateHalfOpen

\* C6: in closed, RecordSuccess zeroes the failure count and RecordFailure
\* increments it, opening the breaker exactly when the failures since the
\* last success reach FailureThreshold, with retry time now + Timeout; in
\* half_open, RecordSuccess closes with count 0 and RecordFailure reopens
\* with retry time now + Timeout.
C6_RecordEffects ==
    [][BCall =>
        /\ (BOp = "RecordSuccess" /\ brk.state = StateClosed) =>
              (brk'.failures = 0 /\ brk'.state = StateClosed)
        /\ (BOp = "RecordFailure" /\ brk.state = StateClosed) =>
              /\ brk'.failures = brk.failures + 1
              /\ brk'.state \in {StateClosed, StateOpen}
              /\ (brk'.state = StateOpen) <=> (bobs'.fsince = brk.config.FailureThreshold)
              /\ (brk'.state = StateOpen) => (brk'.nextRetryTime = now + brk.config.Timeout)
        /\ (BOp = "RecordSuccess" /\ brk.state = StateHalfOpen) =>
              (brk'.failures = 0 /\ brk'.state = StateClosed)
        /\ (BOp = "RecordFailure" /\ brk.state = StateHalfOpen) =>
              (brk'.state = StateOpen /\ brk'.nextRetryTime = now + brk.config.Timeout)
      ]_vars

\* C6 witness: a breaker with threshold above 1 that was opened from closed
\* by the failure that reached the threshold, later than its creation.
C6_Witness ==
    /\ brk.config.FailureThreshold > 1
    /\ brk.state = StateOpen
    /\ bobs.op = "RecordFailure"
    /\ bobs.pre = StateClosed
    /\ bobs.fsince = brk.config.FailureThreshold
    /\ brk.nextRetryTime = now + brk.config.Timeout
    /\ now > 1

\* C7: while open and before the retry time Allow returns false and the
\* state stays open; the first Allow at or after the retry time moves to
\* half_open and returns true; while half_open no further Allow returns
\* true, so at most one admitted request is in flight in half_open.
C7_AllowOpenAndProbe ==
    [][(BCall /\ BOp = "Allow") =>
        /\ (brk.state = StateOpen /\ now < brk.nextRetryTime) =>
              (~bobs'.ok /\ brk'.state = StateOpen)
        /\ (brk.state = StateOpen /\ now >= brk.nextRetryTime) =>
              (bobs'.ok /\ brk'.state = StateHalfOpen)
        /\ (brk.state = StateHalfOpen) => ~bobs'.ok
      ]_vars

(***************************************************************************)
(* SpecFile: main in file mode.                                            *)
(***************************************************************************)
InitStore == now = 1 /\ StoreInit /\ BreakerIdle /\ ProxyIdle /\ RouterIdle

NextBoot ==
    \/ LoadInitialRead
    \/ LoadInitialStore
    \/ NewHandler

NextReload ==
    \/ StartReloadLoop
    \/ PollChecksum
    \/ PollLoad
    \/ PollStoreConfig
    \/ PollStoreSource
    \/ PollStoreChecksum
    \/ PollStoreTime

\* What the file is rewritten to in SpecFile.
ReloadContents == FileContents \cup {FileOf(CfgNonPositive)}

NextFile ==
    \/ NextBoot
    \/ CheckLoopPanic
    \/ \E f \in ReloadContents : WriteFile(f)
    \/ NextReload
    \/ TickStore

SpecFile == InitStore /\ [][NextFile]_vars

\* C2: a poll in which the file cannot be read, cannot be parsed or fails
\* Validate leaves GetConfig, the source tag and the last-reload time as they
\* were before the poll.
C2_FailedPollKeepsConfig ==
    (poll.pc = "idle" /\ poll.failed) => StoreView = poll.before

\* C2 witness: after a successful reload of version 2, and later than it, a
\* poll found a file that parses but fails Validate.
C2_Witness ==
    /\ poll.pc = "idle" /\ poll.failed
    /\ poll.cfg = CfgGhost
    /\ activeConfig = CfgV2 /\ lastReplaced = CfgV2
    /\ lastReload < now

(***************************************************************************)
(* SpecGet: a goroutine reads the configuration through GetConfig while    *)
(* the reload loop or the push client replaces it.                         *)
(***************************************************************************)
GetPushConfigs == {CfgV1, CfgV2}
GetFileContents == {FileOf(CfgV1), FileOf(CfgV2), FileGarbage}

NextApply ==
    \/ StartClient
    \/ ClientLoopTop
    \/ ClientConnect
    \/ \E c \in GetPushConfigs : RemotePush(SnapshotMessage(c))
    \/ ClientRead
    \/ ClientApplyConfig
    \/ ClientApplySource
    \/ ClientApplyTime
    \/ ClientReply

NextGetter ==
    \/ GrGetConfig
    \/ GrReadField
    \/ GrDone

NextGet ==
    \/ NextBoot
    \/ \E f \in GetFileContents : WriteFile(f)
    \/ NextReload
    \/ NextApply
    \/ NextGetter

SpecGet == InitStore /\ [][NextGet]_vars

\* No writer is between its store of the config and its return.
NoReplacementInProgress ==
    /\ boot.pc \in {"mode", "handler", "serving"}
    /\ poll.pc \in {"idle", "load", "store_config"}
    /\ cl.pc \in {"off", "loop", "connect", "sleep", "read", "apply_config"}

\* The fields of config c in the order a reader takes them.
FieldsOf(c) == [i \in 1..Len(ReadOrder) |-> c[ReadOrder[i]]]

\* C4: the fields a reader takes from the config GetConfig gave it are the
\* fields of one config that was stored whole, never a mix of two; and when
\* every successful replacement has returned, GetConfig is the config of the
\* most recent one.
C4_GetConfigWhole ==
    /\ gr.pc = "done" => \E c \in published : gr.msg = FieldsOf(c)
    /\ NoReplacementInProgress => GetConfig = lastReplaced

\* C4 witness: a reader that took its config before a replacement finished
\* reading after it, and holds the complete previous config.
C4_Witness ==
    /\ gr.pc = "done"
    /\ gr.msg = FieldsOf(CfgV1)
    /\ NoReplacementInProgress
    /\ GetConfig = CfgV2

(***************************************************************************)
(* SpecPush: main in push mode, fed by a remote control plane.             *)
(***************************************************************************)
NextPush ==
    \/ NextBoot
    \/ TickStore
    \/ StartClient
    \/ ClientLoopTop
    \/ ClientConnect
    \/ ClientConnectFail
    \/ ClientBackoff
    \/ \E m \in RemoteMessages : RemotePush(m)
    \/ RemoteClose
    \/ ClientReadError
    \/ ClientRead
    \/ ClientNack
    \/ ClientApplyConfig
    \/ ClientApplySource
    \/ ClientApplyTime
    \/ ClientReply

SpecPush == InitStore /\ [][NextPush]_vars

\* A snapshot's content violates a snapshot invariant: the routing table maps
\* a key to a placement outside the endpoint set, or the default placement is
\* outside the endpoint set, or the version is empty.
ViolatesSnapshotInvariant(c) ==
    \/ c.Version = ""
    \/ c.DefaultPlacement \notin DOMAIN c.CellEndpoints
    \/ \E k \in DOMAIN c.RoutingTable : c.RoutingTable[k] \notin DOMAIN c.CellEndpoints

\* C1: after the push client has handled a config_snapshot whose content
\* violates a snapshot invariant, the Loader's active config is the one that
\* was active before the message arrived.
C1_InvalidSnapshotKeepsActive ==
    (cl.pc = "read" /\ cl.handled = "ack" /\ ViolatesSnapshotInvariant(cl.cfg))
        => GetConfig = cl.before

(***************************************************************************)
(* SpecRoute: one request at a time is routed (Router.Route over the       *)
(* Loader) while the reload loop replaces the configuration.               *)
(***************************************************************************)
RouteFileContents == {FileOf(CfgV1), FileOf(CfgV2), FileOf(CfgExtended), FileOf(CfgGhost),
                      FileOf(CfgBoth), FileOf(CfgBothPartial)}

NextRoute ==
    \/ NextBoot
    \/ \E f \in RouteFileContents : WriteFile(f)
    \/ NextReload
    \/ \E key \in RoutingKeys : RdRoutingTable(key)
    \/ RdCellEndpoints
    \/ RdDefaultPlacement
    \/ RdFallback
    \/ RdNoFallback
    \/ RdDone

SpecRoute == InitStore /\ [][NextRoute]_vars

\* C3: the routing table, the endpoint map, the default placement and the
\* fallback used for one request are taken from one and the same published
\* config.
C3_OneSnapshotPerRequest ==
    (rd.pc = "done" /\ ~rd.err) =>
        /\ rd.rtFrom \in published
        /\ rd.epFrom = rd.rtFrom
        /\ rd.defFrom = rd.rtFrom
        /\ rd.fbFrom = rd.rtFrom

(***************************************************************************)
(* SpecProxy: requests served by proxy.Handler over a configuration that   *)
(* is not replaced.                                                        *)
(***************************************************************************)
\* The Loader and main after boot in file mode with config c.
StoreServing(c) ==
    /\ file = FileOf(c) /\ writes = 0
    /\ activeConfig = c /\ configSource = SourceFile
    /\ lastChecksum = fileChecksum(FileOf(c)).sum
    /\ lastReload = 1
    /\ boot = [pc |-> "serving", cfg |-> EmptyConfig]
    /\ mode = "file" /\ hconfig = c
    /\ poll = IdlePoll /\ cl = IdleClient /\ stop = IdleStop /\ dbg = IdleDebug /\ srv = Nil
    /\ conn = "none" /\ inbox = <<>> /\ sent = <<>> /\ pushes = 0
    /\ rd = IdleReader /\ gr = IdleGetter
    /\ published = {c} /\ lastReplaced = c

\* The results upstreams give in SpecProxy, where the clock stays within the
\* timeout of the breakers: a reply 200, a reply 500, no reply, a reply
\* w.WriteHeader panics on.  The upstream that answers 500 at times is the
\* fallback's, ProxyFailing; the placement whose probe fails at times is the
\* one the routing table names.
ProxyOutcomes ==
    {o \in Outcomes : ~o.timeout /\ o.hdr = NoHeaders /\ ~(o.status = 200 /\ o.err)}
ProxyFailing == {"tier3"}
ProxyProbed == {"tier1"}

InitProxy ==
    /\ now = 1
    /\ BreakerIdle /\ RouterIdle
    /\ \E c \in ProxyConfigs :
          /\ Validate(c) = ""
          /\ StoreServing(c)
          /\ \E o \in Orders(DOMAIN GetCellEndpoints(c)) : ProxyInit(c, o)
    /\ lastResponse = Nil

NextProxy ==
    \/ \E g \in Goroutines, routingKey \in ProxyRoutingKeys : PStart(g, routingKey)
    \/ \E g \in Goroutines, size \in ContentLengths : PCircuit(g, size)
    \/ \E g \in Goroutines : PAllow(g)
    \/ \E g \in Goroutines : PHealth(g)
    \/ \E g \in Goroutines : PReject(g)
    \/ \E g \in Goroutines, out \in ProxyOutcomes : 
          /\ out.status >= 500 => reqs[g].placement \in ProxyFailing
          /\ PProxy(g, out)
    \/ \E g \in Goroutines : PGetState(g)
    \/ \E g \in Goroutines : PWriteHeader(g)
    \/ \E g \in Goroutines : PRecord(g)
    \/ \E g \in Goroutines : PRespond(g)
    \/ \E g \in Goroutines : PLog(g)
    \/ \E g \in Goroutines : PRelease(g)
    \/ \E placementKey \in ProxyProbed : HealthChange(placementKey)

SpecProxy == InitProxy /\ [][NextProxy]_vars

\* The FailureThreshold of placement p's circuit_breaker section, 0 when the
\* section does not parse.
ConfiguredThreshold(p) ==
    LET cb == CircuitBreakerParse(hconfig.Placements[p].CircuitBreaker[1])
    IN  IF cb.err = "" THEN cb.FailureThreshold ELSE 0

\* C8: for a placement with circuit_breaker {failure_threshold: N, timeout: T}
\* the breaker the proxy uses is open (or probing, after T) once N
\* consecutive requests to the placement have failed.
C8_PlacementBreakerOpens ==
    \A p \in DOMAIN streak :
        (ConfiguredThreshold(p) > 0 /\ streak[p] >= ConfiguredThreshold(p)) =>
            (breakers[p] # Nil /\ breakers[p][1].state # StateClosed)

\* C9: the outcome of a diverted request leaves the breaker of the originally
\* resolved placement untouched.
C9_OutcomeOnContacted ==
    [][\A g \in Goroutines :
          (reqs[g].pc \in {"proxy", "state", "header", "record"} /\ reqs'[g] # reqs[g]
              /\ reqs[g].placement # reqs[g].origin) =>
                  breakers'[reqs[g].origin] = breakers[reqs[g].origin]]_vars

\* C10: the slots held on a placement are exactly those of the requests in
\* flight that were admitted on it: a request releases once, on the key it
\* acquired, on every exit path, a rejected request releases nothing, and
\* with no request in flight no slot is held.
C10_SlotsMatchRequests ==
    \A p \in DOMAIN held :
        held[p] = Cardinality({g \in Goroutines : reqs[g].pc # "idle" /\ reqs[g].acquired = p})

\* C10 witness: the last request served was admitted on tier1 and diverted to
\* tier3 because tier1 was unhealthy; it has returned and no slot is held.
C10_Witness ==
    /\ hconfig = CfgResilient
    /\ \A g \in Goroutines : reqs[g].pc = "idle"
    /\ lastLog = logRequest(200, "upstream_unhealthy")
    /\ held["tier1"] = 0

(***************************************************************************)
(* SpecFailover: one request at a time served by proxy.Handler over a      *)
(* chain of placements, with the responses observed, within the timeout of *)
(* the breakers.                                                           *)
(***************************************************************************)
FailoverConfigs == {CfgCascade}
FailoverRoutingKeys == {"", "acme", "beta", "nobody"}
\* The placements whose upstream fails at times; the other upstream always
\* replies.
FailingUpstreams == {"tier1", "tier2"}

InitFailover ==
    /\ now = 1
    /\ BreakerIdle /\ RouterIdle
    /\ \E c \in FailoverConfigs :
          /\ Validate(c) = ""
          /\ StoreServing(c)
          /\ \E o \in Orders(DOMAIN GetCellEndpoints(c)) : ProxyInit(c, o)
    /\ lastResponse = NoResponse

NextFailover ==
    \/ \E routingKey \in FailoverRoutingKeys : PStart("g1", routingKey)
    \/ \E size \in ContentLengths : PCircuit("g1", size)
    \/ PAllow("g1")
    \/ PHealth("g1")
    \/ \E out \in Outcomes :
          /\ (out.err \/ out.status >= 500 \/ out.panic) =>
                 reqs["g1"].placement \in FailingUpstreams
          /\ PProxy("g1", out)
    \/ PGetState("g1")
    \/ PWriteHeader("g1")
    \/ PReject("g1")
    \/ PRecord("g1")
    \/ PRespond("g1")
    \/ PLog("g1")
    \/ PRelease("g1")
    \/ \E placementKey \in PlacementKeys : HealthChange(placementKey)

SpecFailover == InitFailover /\ [][NextFailover]_vars

\* The fallback the configuration names for placement p, "" when it names none.
FallbackOf(p) ==
    IF p \in DOMAIN hconfig.Placements THEN hconfig.Placements[p].Fallback ELSE ""

\* Allow returns false for the breaker request r took.
Refused(r) ==
    /\ breakers[r.origin] # Nil
    /\ ~Allow(breakers[r.origin][1], now).ok

\* C13: when Allow returns false for the resolved placement, a request whose
\* placement names a fallback is proxied to the fallback with failover reason
\* circuit_open, and one whose placement names none is answered 503 with
\* X-Circuit-State: open without an upstream call.
C13_OpenCircuit ==
    [][\A g \in Goroutines :
          LET r == reqs[g]
              fb == FallbackOf(r.origin)
          IN  /\ (r.pc = "allow" /\ reqs'[g] # r /\ Refused(r)) =>
                     IF fb # ""
                     THEN /\ reqs'[g].pc = "health"
                          /\ reqs'[g].placement = fb
                          /\ reqs'[g].reason = "circuit_open"
                     ELSE reqs'[g].pc = "reject"
              /\ (r.pc = "reject" /\ reqs'[g] # r) =>
                     /\ reqs'[g].pc = "respond" /\ reqs'[g].calls = 0
                     /\ reqs'[g].resp.status = 503
              /\ (r.pc = "respond" /\ r.resp.status = 503 /\ reqs'[g] # r) =>
                     /\ reqs'[g].calls = 0
                     /\ lastResponse'.status = 503
                     /\ headerCircuitState \in DOMAIN lastResponse'.headers
                     /\ lastResponse'.headers[headerCircuitState] = StateOpen
              /\ (r.pc = "health" /\ r.reason = "circuit_open" /\ reqs'[g].pc = "proxy") =>
                     /\ reqs'[g].placement = fb
                     /\ reqs'[g].reason = "circuit_open"]_vars

\* Where the claim sends a request whose resolved placement p is unhealthy.
ExpectedWhenUnhealthy(p) ==
    IF FallbackOf(p) # "" THEN FallbackOf(p)
    ELSE IF p # hconfig.DefaultPlacement THEN hconfig.DefaultPlacement
    ELSE p

\* C14 as stated: whenever the resolved placement is unhealthy the request
\* goes to the fallback, else to the default placement, else to the placement
\* itself, with failover reason upstream_unhealthy in the first two cases.
C14_UnhealthyAlwaysDiverts ==
    [][\A g \in Goroutines :
          LET r == reqs[g]
              target == ExpectedWhenUnhealthy(r.origin)
          IN  (r.pc \in {"allow", "health"} /\ ~IsHealthy(r.origin)) =>
                 /\ (r.pc = "health" /\ reqs'[g].pc = "proxy") =>
                        /\ reqs'[g].placement = target
                        /\ target # r.origin => reqs'[g].reason = "upstream_unhealthy"
                 /\ ~(r.pc = "allow" /\ reqs'[g].pc = "reject")]_vars

\* C14 amended: when the breaker lets the request through on its resolved
\* placement and that placement is unhealthy, the request goes to the
\* fallback, else to the default placement, else to the placement itself, and
\* the failover reason is upstream_unhealthy in the first two cases and none
\* in the third.
C14_UnhealthyDivertsWhenAllowed ==
    [][\A g \in Goroutines :
          LET r == reqs[g]
              target == ExpectedWhenUnhealthy(r.origin)
          IN  (r.pc = "health" /\ r.reason = "" /\ ~IsHealthy(r.origin)
                  /\ reqs'[g].pc = "proxy") =>
                 /\ r.placement = r.origin
                 /\ reqs'[g].placement = target
                 /\ reqs'[g].reason = IF target # r.origin THEN "upstream_unhealthy" ELSE ""]_vars

\* C14 witness: tier2, which names no fallback and is not the default
\* placement, is unhealthy, and a request resolved to it is about to be proxied
\* to the default placement.
C14_Witness ==
    /\ hconfig = CfgCascade
    /\ "tier2" \in unhealthy
    /\ reqs["g1"].pc = "proxy" /\ reqs["g1"].origin = "tier2"
    /\ reqs["g1"].placement = "tier3" /\ reqs["g1"].reason = "upstream_unhealthy"

\* C15: the placement a request is proxied to is the resolved placement, or
\* the fallback the resolved placement names, or, when it names none and the
\* request was diverted for health, the default placement.
C15_DivertedAtMostOnce ==
    \A g \in Goroutines :
        reqs[g].pc = "proxy" =>
            LET r == reqs[g]
                fb == FallbackOf(r.origin)
            IN  \/ r.placement = r.origin
                \/ fb # "" /\ r.placement = fb
                \/ /\ fb = "" /\ r.reason = "upstream_unhealthy"
                   /\ r.placement = hconfig.DefaultPlacement

\* C17: every response written carries X-Routed-To, X-Route-Reason and
\* X-Request-Id, and the response to a diverted request carries
\* X-Failover-Reason as well.
C17_ExplainabilityHeaders ==
    [][lastResponse' # lastResponse =>
          /\ {headerRoutedTo, headerRouteReason, headerRequestID} \subseteq
                 DOMAIN lastResponse'.headers
          /\ \A g \in Goroutines :
                 (reqs[g].pc \in {"header", "respond"} /\ reqs'[g] # reqs[g]
                     /\ reqs[g].reason # "") =>
                        headerFailoverReason \in DOMAIN lastResponse'.headers]_vars

\* The upstream sent no response header within ResponseHeaderTimeout.
HeaderTimeout ==
    [status |-> 0, err |-> TRUE, timeout |-> TRUE, panic |-> FALSE, hdr |-> NoHeaders]

\* C18: when the upstream's response-header deadline is exceeded the client
\* gets 504 and one failure is recorded on the breaker.
C18_TimeoutIs504 ==
    [][\A g \in Goroutines :
          LET r == reqs[g]
          IN  (r.ret = Returned(HeaderTimeout) /\ reqs'[g] # r) =>
                  /\ r.pc = "record" =>
                         \E p \in DOMAIN breakers :
                             /\ breakers[p] # Nil
                             /\ breakers'[p][1].failures = breakers[p][1].failures + 1
                  /\ r.pc = "respond" => lastResponse'.status = 504
                  /\ r.pc = "log" => lastLog'.status = 504]_vars

(***************************************************************************)
(* SpecLimits: the limits manager of a handler under arbitrary callers.    *)
(***************************************************************************)
NextLimits ==
    \/ \E g \in Goroutines : \E placementKey \in LimitKeys : LTryAcquire(g, placementKey)
    \/ \E g \in Goroutines : LRejected(g)
    \/ \E g \in Goroutines : LRelease(g)

\* The handler after NewHandler over a configuration with or without limits.
LimitsConfigs == ProxyConfigs \cup {CfgV1, CfgV2}

InitLimits ==
    /\ now = 1
    /\ BreakerIdle /\ RouterIdle
    /\ \E c \in LimitsConfigs :
          /\ Validate(c) = ""
          /\ StoreServing(c)
          /\ \E o \in Orders(DOMAIN GetCellEndpoints(c)) : ProxyInit(c, o)
    /\ lastResponse = Nil

SpecLimits == InitLimits /\ [][NextLimits]_vars

\* The concurrency_limit the configuration gives placement p, 0 when absent.
ConcurrencyLimitOf(p) ==
    IF p \in DOMAIN hconfig.Placements THEN hconfig.Placements[p].ConcurrencyLimit ELSE 0

\* C11: a placement with concurrency_limit L > 0 never has more than L slots
\* held; TryAcquire returns false exactly when L slots are held and leaves
\* them as they are, and takes one slot otherwise; it returns true for a
\* placement whose limit is 0 or absent; and a call never waits.
C11_TryAcquire ==
    /\ [](\A p \in DOMAIN held : held[p] <= ConcurrencyLimitOf(p))
    /\ [](\A g \in Goroutines : \A p \in LimitKeys :
            reqs[g].pc = "idle" => ENABLED LTryAcquire(g, p))
    /\ [][\A g \in Goroutines :
            (reqs[g].pc = "idle" /\ reqs'[g].pc \in {"admitted", "rejected"}) =>
                LET p == reqs'[g].acquired
                    full == ConcurrencyLimitOf(p) > 0 /\ held[p] = ConcurrencyLimitOf(p)
                IN  /\ reqs'[g].pc = "rejected" <=> full
                    /\ full => held' = held
                    /\ (ConcurrencyLimitOf(p) > 0 /\ ~full) =>
                           held' = [held EXCEPT ![p] = @ + 1]]_vars

\* C11 witness: one goroutine holds the only slot of tier1 and the other was
\* turned away on tier1.
C11_Witness ==
    /\ hconfig = CfgResilient
    /\ held["tier1"] = 1
    /\ reqs["g1"].pc = "admitted" /\ reqs["g1"].acquired = "tier1"
    /\ reqs["g2"].pc = "rejected" /\ reqs["g2"].acquired = "tier1"

\* The entries of the requests the proxy answers itself.
SelfAnswered ==
    {logRequest(400, ""), logRequest(429, "concurrency_limit"),
     logRequest(413, "body_size_limit"), logRequest(503, "circuit_open")}

\* C12: a request the proxy answers itself with 400 or 429 (before it holds
\* anything) or with 413 or 503 (after admission) makes no upstream call,
\* and no step it takes to refuse, answer and log changes a breaker: not the
\* Allow that refuses it, not the read of the breaker's state, not the
\* response, not the log entry and not the return.
C12_SelfAnsweredLeavesBreakers ==
    [][\A g \in Goroutines :
          LET r == reqs[g]
              q == reqs'[g]
          IN  /\ (q # r /\ q.pc \in {"respond", "log"} /\ q.entry \in SelfAnswered) =>
                     (q.calls = 0 /\ breakers' = breakers)
              /\ (q # r /\ r.pc \in {"respond", "log"} /\ r.entry \in SelfAnswered) =>
                     (r.calls = 0 /\ q.calls = 0 /\ breakers' = breakers)
              /\ (r.pc = "allow" /\ q.pc = "reject") =>
                     (q.calls = 0 /\ breakers' = breakers)
              /\ (r.pc = "reject" /\ q # r) =>
                     /\ q.pc = "respond" /\ q.entry = logRequest(503, "circuit_open")
                     /\ q.calls = 0
                     /\ breakers' = breakers]_vars

\* C12 witness: a request was just answered 503 on an open breaker, without
\* an upstream call, and has not returned yet.
C12_Witness ==
    /\ lastLog = logRequest(503, "circuit_open")
    /\ \E g \in Goroutines :
          /\ reqs[g].pc = "release" /\ reqs[g].calls = 0
          /\ breakers[reqs[g].placement] # Nil
          /\ breakers[reqs[g].placement][1].state = StateOpen
          /\ breakers[reqs[g].placement][1].failures = DefaultFailureThreshold

\* C16: no request makes more than one upstream call, whatever the result of
\* the first.
C16_OneUpstreamCall == \A g \in Goroutines : reqs[g].calls <= 1

\* C16 witness: the last request got no reply from its upstream, was answered
\* 502 after its one call, and has not returned yet.
C16_Witness ==
    /\ lastLog.status = 502
    /\ \E g \in Goroutines : reqs[g].pc = "release" /\ reqs[g].calls = 1

\* C19: on a configuration that Validate accepts the router that reads
\* through the Loader finds an endpoint for every routing key, and no request
\* with a routing key is answered 500.
C19_ValidatedConfigRoutes ==
    Validate(activeConfig) = "" =>
        /\ \A routingKey \in ProxyRoutingKeys :
               ~Route(routingKey, LoaderGetRoutingTable, LoaderGetCellEndpoints,
                      LoaderGetDefaultPlacement).err
        /\ lastLog.status # 500

(***************************************************************************)
(* SpecDecide: Route called on a Router over static maps.                  *)
(***************************************************************************)
RouterTables ==
    {Nil,
     ("acme" :> "tier1") @@ ("beta" :> "tier2") @@ ("visa" :> "visa"),
     ("" :> "tier1") @@ ("acme" :> "ghost")}
RouterEndpoints ==
    {Nil,
     ("tier3" :> "http://u-t3"),
     ("tier1" :> "http://u-t1") @@ ("tier2" :> "http://u-t2") @@ ("tier3" :> "http://u-t3")
     @@ ("visa" :> "http://u-visa")}
RouterDefaults == {"", "tier3", "visa"}
RouterKeys == {"", "acme", "beta", "visa", "nobody"}

InitDecide ==
    /\ now = 1
    /\ StoreIdle /\ BreakerIdle /\ ProxyIdle
    /\ \E routingTable \in RouterTables, cellEndpoints \in RouterEndpoints,
          defaultPlacement \in RouterDefaults :
          router = NewRouter(routingTable, cellEndpoints, defaultPlacement)
    /\ lastDecision = NoDecision

NextDecide == \E routingKey \in RouterKeys : RouterRoute(routingKey)

SpecDecide == InitDecide /\ [][NextDecide]_vars

\* C20: the decision is the default placement with reason default when the
\* key is empty or not in the routing table, and otherwise the mapped
\* placement with reason tier for tier1, tier2 and tier3 and dedicated for any
\* other; its endpoint is the one the endpoint map gives the chosen
\* placement, and Route fails exactly when the map gives it none.
C20_RouteDecision ==
    lastDecision.called =>
        LET key == lastDecision.key
            result == lastDecision.result[1]
            byDefault == key = "" \/ key \notin DOMAIN router.routingTable
            chosen == IF byDefault THEN router.defaultPlacement ELSE router.routingTable[key]
        IN  /\ result.err <=> chosen \notin DOMAIN router.cellEndpoints
            /\ ~result.err =>
                   /\ result.PlacementKey = chosen
                   /\ result.EndpointURL = router.cellEndpoints[chosen]
                   /\ result.Reason = IF byDefault THEN "default"
                                      ELSE IF chosen \in {"tier1", "tier2", "tier3"} THEN "tier"
                                      ELSE "dedicated"

\* C20 witness: Route was called with a key mapped to tier2 and chose it as
\* a tier.
C20_Witness ==
    /\ lastDecision.called /\ lastDecision.key = "beta"
    /\ ~lastDecision.result[1].err
    /\ lastDecision.result[1].PlacementKey = "tier2"
    /\ lastDecision.result[1].Reason = ReasonTier

(***************************************************************************)
(* The push client's replies, backoff and effect on the store (SpecPush).  *)
(***************************************************************************)
LastSent(q) == q[Len(q)]

\* C21: handling a config_snapshot on an open connection writes exactly one
\* reply before the next read: an ack when the snapshot passes Validate and
\* has been stored as the active config, a nack otherwise; other messages
\* get no reply.
C21_OneReplyPerSnapshot ==
    [][/\ (cl.pc = "reply" /\ cl'.pc = "read" /\ conn = "open") =>
              /\ Len(sent') = Len(sent) + 1
              /\ LastSent(sent').Type =
                     IF Validate(cl.cfg) = "" /\ activeConfig = cl.cfg
                     THEN MessageTypeAck ELSE MessageTypeNack
       /\ (cl.pc = "nack" /\ cl'.pc = "read" /\ conn = "open") =>
              /\ Len(sent') = Len(sent) + 1
              /\ LastSent(sent').Type = MessageTypeNack
       /\ (cl.pc = "read" /\ cl'.pc = "read") => sent' = sent
      ]_vars

\* C22: every ack and nack carries the version of the config_snapshot it
\* answers.
C22_ReplyCarriesVersion ==
    [][sent' # sent => LastSent(sent').Version = cl.answering]_vars

RECURSIVE Pow2(_)
Pow2(n) == IF n <= 0 THEN 1 ELSE 2 * Pow2(n - 1)

\* C23: the delay slept after the k-th consecutive failed connection attempt
\* is min(2^(k-1), 60) seconds, and after a successful connect the next
\* delay is 1 second.
C23_BackoffDelay ==
    /\ cl.pc = "sleep" => cl.backoff = Min(Pow2(cl.failures - 1), 60)
    /\ (cl.pc \in {"loop", "connect", "read"} /\ cl.failures = 0) => cl.backoff = 1

\* C23 witness: the seventh failure in a row sleeps 60 seconds, not 64.
C23_Witness == cl.pc = "sleep" /\ cl.failures = 7 /\ cl.backoff = 60

\* C25: once the push client runs, the active config, its source and its
\* reload time change only inside ApplyConfig, which only a config_snapshot
\* message reaches; outside of it the active config is the last applied one.
C25_OnlySnapshotChangesStore ==
    /\ [][(mode = "cp" /\ cl.pc \notin {"apply_config", "apply_source", "apply_time"})
             => UNCHANGED StoreView]_vars
    /\ [][(cl.pc = "read" /\ cl'.pc = "apply_config")
             => (Head(inbox).json /\ Head(inbox).Type = MessageTypeConfigSnapshot)]_vars
    /\ []((mode = "cp" /\ cl.pc \notin {"apply_config", "apply_source", "apply_time"})
             => GetConfig = lastReplaced)

\* C25 witness: a snapshot was applied, a message of unknown type was
\* ignored, the connection was lost and two attempts to reconnect failed; the
\* applied snapshot is still active.
C25_Witness ==
    /\ mode = "cp" /\ conn = "lost" /\ cl.pc = "sleep" /\ cl.failures = 2
    /\ cl.handled = "ignored"
    /\ configSource = SourceControlPlane /\ GetConfig = CfgV1

\* C27: after the client has applied the snapshot message built from a valid
\* config c, the active config has c's version, routing table, endpoints,
\* placements with their descriptors and default placement.
C27_SnapshotRoundTrip ==
    \A c \in PushConfigs :
        (/\ Validate(c) = ""
         /\ cl.pc = "read" /\ cl.handled = "ack"
         /\ cl.cfg = SnapshotConfig(SnapshotMessage(c)))
        => /\ GetConfig.Version = c.Version
           /\ GetConfig.RoutingTable = c.RoutingTable
           /\ GetCellEndpoints(GetConfig) = GetCellEndpoints(c)
           /\ GetConfig.Placements = c.Placements
           /\ GetConfig.DefaultPlacement = c.DefaultPlacement

(***************************************************************************)
(* SpecStop: a started push client, a remote side that refuses, accepts,   *)
(* stays silent, pushes or goes away, and one call of Stop.  The client    *)
(* and the caller of Stop keep running; nothing is assumed of the remote.  *)
(***************************************************************************)
StopMessages == {UnknownMessage, MalformedSnapshot, SnapshotMessage(CfgV2)}

\* main in push mode after LoadInitial of CfgV1 and dpClient.Start().
InitStop ==
    /\ now = 1
    /\ BreakerIdle /\ ProxyIdle /\ RouterIdle
    /\ file = FileOf(CfgV1) /\ writes = 0
    /\ activeConfig = CfgV1 /\ configSource = SourceFile
    /\ lastChecksum = fileChecksum(FileOf(CfgV1)).sum
    /\ lastReload = 1
    /\ boot = [pc |-> "serving", cfg |-> EmptyConfig]
    /\ mode = "cp" /\ hconfig = CfgV1
    /\ poll = IdlePoll /\ cl = [IdleClient EXCEPT !.pc = "loop"] /\ stop = IdleStop /\ dbg = IdleDebug /\ srv = Nil
    /\ conn = "none" /\ inbox = <<>> /\ sent = <<>> /\ pushes = 0
    /\ rd = IdleReader /\ gr = IdleGetter
    /\ published = {CfgV1} /\ lastReplaced = CfgV1

ClientStep ==
    \/ ClientLoopTop
    \/ ClientConnect
    \/ ClientConnectFail
    \/ ClientBackoff
    \/ ClientReadError
    \/ ClientRead
    \/ ClientNack
    \/ ClientApplyConfig
    \/ ClientApplySource
    \/ ClientApplyTime
    \/ ClientReply

StopStep ==
    \/ StopLock
    \/ StopCloseCh
    \/ StopWait

NextStop ==
    \/ ClientStep
    \/ StopStep
    \/ \E m \in StopMessages : RemotePush(m)
    \/ RemoteClose

SpecStop == InitStop /\ [][NextStop]_vars /\ WF_vars(ClientStep) /\ WF_vars(StopStep)

\* C24: once Stop has been called, the connection loop eventually exits and
\* Stop returns with no connection open, and no connection is open at any
\* time after Stop has returned.
C24_StopTerminates ==
    /\ (stop.pc # "idle") ~> (stop.pc = "returned" /\ cl.pc = "exited" /\ conn # "open")
    /\ [](stop.pc = "returned" => conn # "open")

(***************************************************************************)
(* SpecFileLive: SpecFile with main and the reload loop kept running (the  *)
(* ticker of reloadLoop fires again and again).                            *)
(***************************************************************************)
SpecFileLive ==
    /\ InitStore /\ [][NextFile]_vars
    /\ WF_vars(NextBoot) /\ WF_vars(CheckLoopPanic) /\ WF_vars(NextReload)

ValidFiles == {f \in ReloadContents : LoadFromFile(f).err = "" /\ Validate(f.cfg) = ""}

\* C26: when the reload loop runs and the file's content ends up as a valid
\* config and stays so, the active config eventually is that config, with
\* source file.
C26_FileChangeIsLoaded ==
    \A f \in ValidFiles :
        <>[](mode = "file" /\ Running /\ file = f)
            => <>(GetConfig = f.cfg /\ configSource = SourceFile)

(***************************************************************************)
(* The two shapes of a document, and the values Validate lets through.     *)
(***************************************************************************)
\* The endpoint set derived from the placements of c.
PlacementURLs(c) == [k \in DOMAIN c.Placements |-> c.Placements[k].URL]

\* c has both a legacy endpoint map and placements.
HasBothShapes(c) == DOMAIN c.CellEndpoints # {} /\ DOMAIN c.Placements # {}

\* C28: when the config has both cellEndpoints and placements, the endpoints
\* a request is routed with are the placements' urls, and a reload fails
\* validation only when it fails with the placements' urls as endpoint set.
C28_PlacementsWin ==
    /\ (rd.pc = "done" /\ ~rd.err /\ HasBothShapes(rd.epFrom))
           => rd.ep = PlacementURLs(rd.epFrom)
    /\ (poll.pc = "idle" /\ poll.failed /\ HasBothShapes(poll.cfg))
           => Validate([poll.cfg EXCEPT !.CellEndpoints = Nil]) # ""

\* c has a health_check interval or timeout, or a circuit_breaker timeout,
\* that is not positive, or a failure_threshold that is not above 0.
NonPositive(c) ==
    \E k \in DOMAIN c.Placements :
        LET p == c.Placements[k]
        IN  \/ /\ p.HealthCheck # Nil
               /\ HealthCheckParse(p.HealthCheck[1]).err = ""
               /\ \/ HealthCheckParse(p.HealthCheck[1]).Interval <= 0
                  \/ HealthCheckParse(p.HealthCheck[1]).Timeout <= 0
            \/ /\ p.CircuitBreaker # Nil
               /\ CircuitBreakerParse(p.CircuitBreaker[1]).err = ""
               /\ \/ CircuitBreakerParse(p.CircuitBreaker[1]).Timeout <= 0
                  \/ p.CircuitBreaker[1].FailureThreshold <= 0

\* C29: no config with a non-positive duration or threshold becomes the
\* active config or the config the handler is built from.
C29_PositiveDurations == ~NonPositive(GetConfig) /\ ~NonPositive(hconfig)

\* Placement p has a health_check block in c.
HasHealthCheck(c, p) ==
    GetPlacementConfig(c, p).exists /\ GetPlacementConfig(c, p).cfg.HealthCheck # Nil

\* C30: a placement without health_check block is healthy in every state,
\* and no request is moved away from such a placement with reason
\* upstream_unhealthy.
C30_NoHealthCheckStaysHealthy ==
    /\ [](\A p \in DOMAIN GetCellEndpoints(hconfig) :
              ~HasHealthCheck(hconfig, p) => IsHealthy(p))
    /\ [][\A g \in DOMAIN reqs :
              (reqs[g].pc = "health" /\ reqs'[g].reason = "upstream_unhealthy")
                  => HasHealthCheck(hconfig, reqs[g].placement)]_vars

(***************************************************************************)
(* Further properties of the breaker (SpecBreaker) and of the digest the   *)
(* Loader records (SpecFile).                                              *)
(***************************************************************************)
\* C37: an outcome recorded on a half_open breaker by a request that Allow
\* admitted while the breaker was closed leaves the breaker half_open.
C37_LateOutcomeIgnored ==
    [][\A c \in Callers :
          (/\ callers[c].pc = "inflight" /\ callers'[c].pc = "idle"
           /\ callers[c].admitted = StateClosed
           /\ brk.state = StateHalfOpen)
          => brk'.state = StateHalfOpen]_vars

\* C39: whenever no load is under way, the recorded digest is the digest of
\* the content the active file-sourced config was parsed from.
C39_DigestOfLoadedContent ==
    (/\ boot.pc \in {"mode", "handler", "serving"}
     /\ poll.pc = "idle"
     /\ configSource = SourceFile)
    => lastChecksum = fileChecksum(FileOf(GetConfig)).sum

\* C40: the breaker's state is closed, open or half_open, and a closed
\* breaker has counted fewer failures than its FailureThreshold.
C40_ClosedBelowThreshold ==
    /\ brk.state \in {StateClosed, StateOpen, StateHalfOpen}
    /\ brk.state = StateClosed => brk.failures < brk.config.FailureThreshold

\* C40 witness: a closed breaker one failure short of its threshold, after it
\* had been open and was closed again.
C40_Witness ==
    /\ brk.state = StateClosed
    /\ brk.config.FailureThreshold > 1
    /\ brk.failures = brk.config.FailureThreshold - 1
    /\ brk.lastStateChange > 1
    /\ bobs.op = "RecordFailure"

(***************************************************************************)
(* SpecHealth: a handler built over a configuration in which two           *)
(* placements have a health_check block.                                   *)
(***************************************************************************)
\* tier1 and tier2 have health checks of their own, tier3 has none.
CfgTwoChecks ==
    MkConfig("14", ("acme" :> "tier1") @@ ("beta" :> "tier2"),
             ("tier1" :> "http://u-t1") @@ ("tier2" :> "http://u-t2")
             @@ ("tier3" :> "http://u-t3"),
             ("tier1" :> Placement("http://u-t1", "tier3",
                                   Ptr([Path |-> "/health", Interval |-> "10s", Timeout |-> "2s"]),
                                   Nil, 0, 0))
             @@ ("tier2" :> Placement("http://u-t2", "tier3",
                                      Ptr([Path |-> "/ready", Interval |-> "30s", Timeout |-> "10s"]),
                                      Nil, 0, 0))
             @@ ("tier3" :> Placement("http://u-t3", "", Nil, Nil, 0, 0)),
             "tier3")

HealthConfigs == {CfgTwoChecks}
HealthRoutingKeys == {"acme", "beta", "nobody"}

\* The placements configureResilienceMechanisms called RegisterEndpoint for,
\* in a checker of their own or in the one h.healthChecker named at that
\* turn of the range: all but those whose health_check block does not parse.
Probed(cfg) ==
    {k \in DOMAIN GetCellEndpoints(cfg) :
        ~(/\ GetPlacementConfig(cfg, k).exists
          /\ GetPlacementConfig(cfg, k).cfg.HealthCheck # Nil
          /\ HealthCheckParse(GetPlacementConfig(cfg, k).cfg.HealthCheck[1]).err # "")}

\* checkLoop of a checker that h.healthChecker no longer names: RegisterEndpoint
\* started it, nothing stops it, and performCheck records the probe's result
\* in that checker's own endpoints map.
OrphanHealthChange(placementKey) ==
    /\ Running
    /\ placementKey \in Probed(hconfig)
    /\ placementKey \notin Registered
    /\ unhealthy' = IF placementKey \in unhealthy THEN unhealthy \ {placementKey}
                    ELSE unhealthy \cup {placementKey}
    /\ UNCHANGED <<now, storeVars, breakerVars, routerVars, stop, ctlVars, breakers, held,
                   healthEndpoints, reqs, lastLog, lastResponse, streak>>

InitHealth ==
    /\ now = 1
    /\ BreakerIdle /\ RouterIdle
    /\ \E c \in HealthConfigs :
          /\ Validate(c) = ""
          /\ StoreServing(c)
          /\ \E o \in Orders(DOMAIN GetCellEndpoints(c)) : ProxyInit(c, o)
    /\ lastResponse = NoResponse

NextHealth ==
    \/ \E routingKey \in HealthRoutingKeys : PStart("g1", routingKey)
    \/ \E size \in {0} : PCircuit("g1", size)
    \/ PAllow("g1")
    \/ PHealth("g1")
    \/ \E out \in {o \in Outcomes : ~o.err /\ ~o.panic /\ o.status = 200} : PProxy("g1", out)
    \/ PGetState("g1")
    \/ PWriteHeader("g1")
    \/ PRecord("g1")
    \/ PLog("g1")
    \/ PRelease("g1")
    \/ \E placementKey \in PlacementKeys : HealthChange(placementKey)
    \/ \E placementKey \in PlacementKeys : OrphanHealthChange(placementKey)

SpecHealth == InitHealth /\ [][NextHealth]_vars

\* C31: a placement with a health_check block whose last probe failed is
\* unhealthy for the handler: h.healthChecker.IsHealthy is false for it.
C31_OwnProbeConsulted ==
    \A p \in OwnChecker(hconfig) : p \in unhealthy => ~IsHealthy(p)

(***************************************************************************)
(* SpecAdmission: two requests at a time over a configuration whose        *)
(* fallback placement has a concurrency limit, with the responses          *)
(* observed.                                                               *)
(***************************************************************************)
\* tier1 falls back to tier3, which takes one request at a time and also
\* serves the key gamma directly.
CfgLimitedFallback ==
    MkConfig("15", ("acme" :> "tier1") @@ ("gamma" :> "tier3"),
             ("tier1" :> "http://u-t1") @@ ("tier3" :> "http://u-t3"),
             ("tier1" :> Placement("http://u-t1", "tier3", Nil, Nil, 0, 0))
             @@ ("tier3" :> Placement("http://u-t3", "", Nil, Nil, 1, 0)),
             "tier3")

AdmissionConfigs == {CfgLimitedFallback}
AdmissionRoutingKeys == {"acme", "gamma"}
\* The upstreams reply, with 200 and, to the requests resolved to tier3, also
\* with 500; the placement whose probe fails at times is the one with a
\* fallback.
AdmissionOutcomes ==
    {o \in Outcomes : o.status # 0 /\ ~o.err /\ ~o.panic /\ o.hdr = NoHeaders}
AdmissionFailing == {"tier3"}
AdmissionProbed == {"tier1"}

\* The requests for which proxyRequest is running towards placement p.
Proxied(p) ==
    {g \in Goroutines : reqs[g].pc \in {"proxy", "state", "header"} /\ reqs[g].placement = p}

InitAdmission ==
    /\ now = 1
    /\ BreakerIdle /\ RouterIdle
    /\ \E c \in AdmissionConfigs :
          /\ Validate(c) = ""
          /\ StoreServing(c)
          /\ \E o \in Orders(DOMAIN GetCellEndpoints(c)) : ProxyInit(c, o)
    /\ lastResponse = NoResponse

NextAdmission ==
    \/ \E g \in Goroutines, routingKey \in AdmissionRoutingKeys : PStart(g, routingKey)
    \/ \E g \in Goroutines : PCircuit(g, 0)
    \/ \E g \in Goroutines : PAllow(g)
    \/ \E g \in Goroutines : PHealth(g)
    \/ \E g \in Goroutines, out \in AdmissionOutcomes :
          /\ out.status >= 500 => reqs[g].origin \in AdmissionFailing
          /\ PProxy(g, out)
    \/ \E g \in Goroutines : PGetState(g)
    \/ \E g \in Goroutines : PWriteHeader(g)
    \/ \E g \in Goroutines : PReject(g)
    \/ \E g \in Goroutines : PRecord(g)
    \/ \E g \in Goroutines : PRespond(g)
    \/ \E g \in Goroutines : PLog(g)
    \/ \E g \in Goroutines : PRelease(g)
    \/ \E placementKey \in AdmissionProbed : HealthChange(placementKey)

SpecAdmission == InitAdmission /\ [][NextAdmission]_vars

\* C36: the requests being proxied to a placement with a concurrency_limit
\* are never more than the limit, diverted requests included.
C36_LimitCountsDiverted ==
    \A p \in DOMAIN Semaphores(hconfig) :
        Cardinality(Proxied(p)) <= Semaphores(hconfig)[p]

(***************************************************************************)
(* SpecWriters: the writers of the Loader as main starts them: LoadInitial *)
(* and then either the reload loop (StartReloadLoop) or a                  *)
(* dataplane.Client calling ApplyConfig, each of them one goroutine.       *)
(***************************************************************************)
\* What the file holds and what the remote side pushes: no configuration is
\* in both, so the active config tells which writer stored it.
WriterFileConfigs == {CfgV1, CfgExtended}
WriterPushConfigs == {CfgV2}

\* main after LoadInitial has loaded version 1 from the file, before it
\* starts the push client or the reload loop.
InitWriters ==
    /\ now = 1
    /\ BreakerIdle /\ ProxyIdle /\ RouterIdle
    /\ file = FileOf(CfgV1) /\ writes = 0
    /\ activeConfig = CfgV1 /\ configSource = SourceFile
    /\ lastChecksum = fileChecksum(FileOf(CfgV1)).sum
    /\ lastReload = 1
    /\ boot = [pc |-> "mode", cfg |-> EmptyConfig]
    /\ mode = "none" /\ hconfig = EmptyConfig
    /\ poll = IdlePoll /\ cl = IdleClient /\ stop = IdleStop /\ dbg = IdleDebug /\ srv = Nil
    /\ conn = "none" /\ inbox = <<>> /\ sent = <<>> /\ pushes = 0
    /\ rd = IdleReader /\ gr = IdleGetter
    /\ published = {CfgV1} /\ lastReplaced = CfgV1

NextWriters ==
    \/ StartClient
    \/ StartReloadLoop
    \/ NewHandler
    \/ TickStore
    \/ \E c \in WriterFileConfigs : WriteFile(FileOf(c))
    \/ PollChecksum
    \/ PollLoad
    \/ PollStoreConfig
    \/ PollStoreSource
    \/ PollStoreChecksum
    \/ PollStoreTime
    \/ ClientLoopTop
    \/ ClientConnect
    \/ \E c \in WriterPushConfigs : RemotePush(SnapshotMessage(c))
    \/ ClientRead
    \/ ClientApplyConfig
    \/ ClientApplySource
    \/ ClientApplyTime
    \/ ClientReply

SpecWriters == InitWriters /\ [][NextWriters]_vars

\* No writer is between its first store and its last.
NoWriteUnderWay ==
    /\ poll.pc \notin {"store_source", "store_checksum", "store_time"}
    /\ cl.pc \notin {"apply_source", "apply_time"}

Runtime(c) ==
    [probed |-> Probed(c),
     health |-> OwnChecker(c),
     limits |-> LimitsConfig(c)]

\* C32: once main serves and the replacements have ended, the handler's
\* per-placement runtime state is the one derived from the last replacement.
C32_RuntimeFollowsSnapshot ==
    <>[](boot.pc = "serving") => <>[](Runtime(hconfig) = Runtime(lastReplaced))

(***************************************************************************)
(* SpecDebug: requests to /debug/config while the data-plane client        *)
(* applies snapshots.                                                      *)
(***************************************************************************)
\* Loader.GetConfigVersion
GetConfigVersion == GetConfig.Version

\* Loader.GetConfigSource: file while nothing was stored.
GetConfigSource == IF configSource = "" THEN SourceFile ELSE configSource

\* Loader.LastReloadTime: the zero time while nothing was stored.
LastReloadTime == lastReload

\* debug.Handler.ServeHTTP: version := h.configProvider.GetConfigVersion()
DebugVersion ==
    /\ Running
    /\ dbg.pc \in {"idle", "done"}
    /\ dbg' = [IdleDebug EXCEPT !.pc = "source", !.version = GetConfigVersion]
    /\ UNCHANGED <<now, storeVars, breakerVars, proxyVars, routerVars, stop, srv>>

\* debug.Handler.ServeHTTP: source := h.configProvider.GetConfigSource()
DebugSource ==
    /\ Running
    /\ dbg.pc = "source"
    /\ dbg' = [dbg EXCEPT !.pc = "time", !.source = GetConfigSource]
    /\ UNCHANGED <<now, storeVars, breakerVars, proxyVars, routerVars, stop, srv>>

\* debug.Handler.ServeHTTP: lastReload := h.configProvider.LastReloadTime(),
\* and the response is written; times are whole seconds, as RFC3339 prints
\* them.
DebugTime ==
    /\ Running
    /\ dbg.pc = "time"
    /\ dbg' = [dbg EXCEPT !.pc = "done", !.time = LastReloadTime]
    /\ UNCHANGED <<now, storeVars, breakerVars, proxyVars, routerVars, stop, srv>>

DebugPushConfigs == {CfgV2}

\* main in push mode after LoadInitial admitted version 1 at time 1 and the
\* client was started.
InitDebug ==
    /\ now = 1
    /\ BreakerIdle /\ ProxyIdle /\ RouterIdle
    /\ file = FileOf(CfgV1) /\ writes = 0
    /\ activeConfig = CfgV1 /\ configSource = SourceFile
    /\ lastChecksum = fileChecksum(FileOf(CfgV1)).sum
    /\ lastReload = 1
    /\ boot = [pc |-> "serving", cfg |-> EmptyConfig]
    /\ mode = "cp" /\ hconfig = CfgV1
    /\ poll = IdlePoll /\ cl = [IdleClient EXCEPT !.pc = "loop"] /\ stop = IdleStop /\ dbg = IdleDebug /\ srv = Nil
    /\ conn = "none" /\ inbox = <<>> /\ sent = <<>> /\ pushes = 0
    /\ rd = IdleReader /\ gr = IdleGetter
    /\ published = {CfgV1} /\ lastReplaced = CfgV1

NextDebug ==
    \/ TickStore
    \/ ClientLoopTop
    \/ ClientConnect
    \/ \E c \in DebugPushConfigs : RemotePush(SnapshotMessage(c))
    \/ ClientRead
    \/ ClientApplyConfig
    \/ ClientApplySource
    \/ ClientApplyTime
    \/ ClientReply
    \/ DebugVersion
    \/ DebugSource
    \/ DebugTime

SpecDebug == InitDebug /\ [][NextDebug]_vars

\* C34: the triple of a finished response is that of one admitted snapshot:
\* version 1 was admitted from the file at time 1, version 2 only by pushes.
C34_DebugTripleOfOneSnapshot ==
    dbg.pc = "done" =>
        /\ dbg.version = CfgV1.Version => dbg.source = SourceFile /\ dbg.time = 1
        /\ dbg.version = CfgV2.Version => dbg.source = SourceControlPlane

(***************************************************************************)
(* SpecServer: controlplane.Server, its WatchConfigChanges goroutine and   *)
(* one HandleConnection goroutine per data-plane connection, while the     *)
(* control plane's own Loader admits new configs.                          *)
(***************************************************************************)
MaxReloads == 2
Conns == {"dp1", "dp2"}

\* Version 1 with another routing table: the document was edited and the
\* version string left as it was.
CfgV1Edited ==
    MkConfig("1", ("acme" :> "tier3") @@ ("visa" :> "visa"),
             ("tier1" :> "http://u-t1") @@ ("tier3" :> "http://u-t3") @@ ("visa" :> "http://u-visa"),
             Nil, "tier3")

ServerConfigs == {CfgV1, CfgV2, CfgV1Edited}

\* What a frame read from a connection on which two writes overlapped can be.
GarbledFrame == GarbageMessage
\* Nothing was written on the connection yet.
NoFrame == [GarbageMessage EXCEPT !.Type = "none"]

IdleWatch == [pc |-> "idle", version |-> "", msg |-> Nil, todo |-> {}, cur |-> ""]
NoConnection == [pc |-> "none", msg |-> Nil]

\* NewServer over a Loader whose active config is c; the goroutine of
\* WatchConfigChanges has been started and has not run yet.
ServerInit(c) ==
    srv = [cfg |-> c, reloads |-> 0, lastVersion |-> "",
           watch |-> [IdleWatch EXCEPT !.pc = "start"],
           clients |-> {}, hc |-> [k \in Conns |-> NoConnection],
           writers |-> [k \in Conns |-> {}], raced |-> [k \in Conns |-> {}],
           gone |-> {}, last |-> [k \in Conns |-> NoFrame], crashed |-> FALSE]

\* The goroutines that hold clientsMutex for reading: BroadcastConfig from
\* RLock to its return.
RLockHeld == srv.watch.pc \in {"range", "write"}

\* conn.WriteMessage begins on connection k in goroutine w; a write that
\* overlaps another one races with it.
BeginWrite(k, w) ==
    [srv EXCEPT !.writers[k] = @ \cup {w},
                !.raced[k] = IF srv.writers[k] # {} THEN @ \cup srv.writers[k] \cup {w} ELSE @]

\* What a WriteMessage of goroutine w on connection k can end in: the frame
\* arrives; or, the peer having gone, WriteMessage returns an error, which
\* the caller logs, and nothing is sent; or, for writes that overlapped, the
\* frames are interleaved on the wire, or the connection's writer panics.
WriteOutcomes(k, w) ==
    (IF k \in srv.gone THEN {"error"} ELSE {"ok"})
    \cup (IF w \in srv.raced[k]
          THEN (IF k \in srv.gone THEN {"panic"} ELSE {"garbled", "panic"})
          ELSE {})

\* conn.WriteMessage of message m ends with outcome o.
EndWrite(k, w, m, o) ==
    [srv EXCEPT !.writers[k] = @ \ {w},
                !.raced[k] = @ \ {w},
                !.last[k] = CASE o = "ok" -> m
                              [] o = "garbled" -> GarbledFrame
                              [] OTHER -> @]

\* The control plane's Loader publishes c (its reload loop admitted it).
CPAdmit(c) ==
    /\ ~srv.crashed
    /\ srv.reloads < MaxReloads
    /\ c # srv.cfg
    /\ srv' = [srv EXCEPT !.cfg = c, !.reloads = @ + 1]
    /\ UNCHANGED <<now, storeVars, breakerVars, proxyVars, routerVars, stop, dbg>>

\* WatchConfigChanges, its first statement: lastVersion is the version of
\* the config that is active when the goroutine gets to run.
WatchStart ==
    /\ ~srv.crashed
    /\ srv.watch.pc = "start"
    /\ srv' = [srv EXCEPT !.lastVersion = srv.cfg.Version, !.watch = IdleWatch]
    /\ UNCHANGED <<now, storeVars, breakerVars, proxyVars, routerVars, stop, dbg>>

\* WatchConfigChanges, a tick on which the version differs from lastVersion:
\* BroadcastConfig is called.  On the other ticks nothing happens.
WatchTick ==
    /\ ~srv.crashed
    /\ srv.watch.pc = "idle"
    /\ srv.cfg.Version # srv.lastVersion
    /\ srv' = [srv EXCEPT !.watch = [IdleWatch EXCEPT !.pc = "get", !.version = srv.cfg.Version]]
    /\ UNCHANGED <<now, storeVars, breakerVars, proxyVars, routerVars, stop, dbg>>

\* BroadcastConfig: GetConfig and the message; no lock is held.
BroadcastGet ==
    /\ ~srv.crashed
    /\ srv.watch.pc = "get"
    /\ srv' = [srv EXCEPT !.watch = [@ EXCEPT !.pc = "lock",
                                              !.msg = SnapshotMessage(srv.cfg)]]
    /\ UNCHANGED <<now, storeVars, breakerVars, proxyVars, routerVars, stop, dbg>>

\* BroadcastConfig: clientsMutex.RLock and the start of the range over
\* s.clients as they are then.
BroadcastLock ==
    /\ ~srv.crashed
    /\ srv.watch.pc = "lock"
    /\ srv' = [srv EXCEPT !.watch = [@ EXCEPT !.pc = "range", !.todo = srv.clients]]
    /\ UNCHANGED <<now, storeVars, breakerVars, proxyVars, routerVars, stop, dbg>>

\* BroadcastConfig: conn.WriteMessage begins for the next connection of the
\* range.
BroadcastWriteBegin(k) ==
    /\ ~srv.crashed
    /\ srv.watch.pc = "range"
    /\ k \in srv.watch.todo
    /\ srv' = [BeginWrite(k, "watch") EXCEPT !.watch = [@ EXCEPT !.pc = "write", !.cur = k]]
    /\ UNCHANGED <<now, storeVars, breakerVars, proxyVars, routerVars, stop, dbg>>

\* BroadcastConfig: that WriteMessage ends.  WatchConfigChanges runs on a
\* goroutine of its own (go cpServer.WatchConfigChanges()): a panic in it
\* ends the process.
BroadcastWriteEnd(o) ==
    /\ ~srv.crashed
    /\ srv.watch.pc = "write"
    /\ o \in WriteOutcomes(srv.watch.cur, "watch")
    /\ srv' = [EndWrite(srv.watch.cur, "watch", srv.watch.msg, o) EXCEPT
                  !.watch = [@ EXCEPT !.pc = "range", !.todo = @ \ {srv.watch.cur},
                                      !.cur = ""],
                  !.crashed = (o = "panic")]
    /\ UNCHANGED <<now, storeVars, breakerVars, proxyVars, routerVars, stop, dbg>>

\* BroadcastConfig returns (RUnlock) and WatchConfigChanges sets lastVersion
\* to the version it read at the tick.
BroadcastReturn ==
    /\ ~srv.crashed
    /\ srv.watch.pc = "range"
    /\ srv.watch.todo = {}
    /\ srv' = [srv EXCEPT !.lastVersion = srv.watch.version, !.watch = IdleWatch]
    /\ UNCHANGED <<now, storeVars, breakerVars, proxyVars, routerVars, stop, dbg>>

\* A data plane connects: HandleConnection, RegisterClient (Lock).
HCRegister(k) ==
    /\ ~srv.crashed
    /\ srv.hc[k].pc = "none"
    /\ ~RLockHeld
    /\ srv' = [srv EXCEPT !.clients = @ \cup {k}, !.hc[k] = [pc |-> "get", msg |-> Nil],
                          !.last[k] = NoFrame]
    /\ UNCHANGED <<now, storeVars, breakerVars, proxyVars, routerVars, stop, dbg>>

\* sendConfigToClient: GetConfig and the message.
SendGet(k) ==
    /\ ~srv.crashed
    /\ srv.hc[k].pc = "get"
    /\ srv' = [srv EXCEPT !.hc[k] = [pc |-> "send", msg |-> SnapshotMessage(srv.cfg)]]
    /\ UNCHANGED <<now, storeVars, breakerVars, proxyVars, routerVars, stop, dbg>>

\* sendConfigToClient: conn.WriteMessage begins; no lock is held.
SendWriteBegin(k) ==
    /\ ~srv.crashed
    /\ srv.hc[k].pc = "send"
    /\ srv' = [BeginWrite(k, "hc") EXCEPT !.hc[k].pc = "writing"]
    /\ UNCHANGED <<now, storeVars, breakerVars, proxyVars, routerVars, stop, dbg>>

\* sendConfigToClient: the WriteMessage ends; HandleConnection goes on to
\* its read loop.  HandleConnection runs on the goroutine net/http serves
\* the /connect request on: a panic unwinds it to the deferred
\* UnregisterClient and is recovered there, and the server runs on.
SendWriteEnd(k, o) ==
    /\ ~srv.crashed
    /\ srv.hc[k].pc = "writing"
    /\ o \in WriteOutcomes(k, "hc")
    /\ srv' = [EndWrite(k, "hc", srv.hc[k].msg, o) EXCEPT
                  !.hc[k] = [pc |-> IF o = "panic" THEN "closing" ELSE "reading", msg |-> Nil]]
    /\ UNCHANGED <<now, storeVars, breakerVars, proxyVars, routerVars, stop, dbg>>

\* The data plane goes away.
PeerGone(k) ==
    /\ ~srv.crashed
    /\ srv.hc[k].pc \notin {"none", "closing"}
    /\ k \notin srv.gone
    /\ srv' = [srv EXCEPT !.gone = @ \cup {k}]
    /\ UNCHANGED <<now, storeVars, breakerVars, proxyVars, routerVars, stop, dbg>>

\* HandleConnection: ReadMessage fails, the peer having gone, and the read
\* loop breaks.
ReadFails(k) ==
    /\ ~srv.crashed
    /\ srv.hc[k].pc = "reading"
    /\ k \in srv.gone
    /\ srv' = [srv EXCEPT !.hc[k].pc = "closing"]
    /\ UNCHANGED <<now, storeVars, breakerVars, proxyVars, routerVars, stop, dbg>>

\* The deferred UnregisterClient (Lock, delete, conn.Close).
HCUnregister(k) ==
    /\ ~srv.crashed
    /\ srv.hc[k].pc = "closing"
    /\ ~RLockHeld
    /\ srv' = [srv EXCEPT !.clients = @ \ {k}, !.hc[k] = NoConnection, !.gone = @ \ {k}]
    /\ UNCHANGED <<now, storeVars, breakerVars, proxyVars, routerVars, stop, dbg>>

InitServer ==
    /\ now = 1
    /\ BreakerIdle /\ ProxyIdle /\ RouterIdle /\ LoaderIdle
    /\ ServerInit(CfgV1)

\* The steps of the WatchConfigChanges goroutine.
WatchStep ==
    \/ WatchStart
    \/ WatchTick
    \/ BroadcastGet
    \/ BroadcastLock
    \/ \E k \in Conns : BroadcastWriteBegin(k)
    \/ \E o \in {"ok", "error", "garbled", "panic"} : BroadcastWriteEnd(o)
    \/ BroadcastReturn

\* The steps of the HandleConnection goroutine of connection k.
HCStep(k) ==
    \/ SendGet(k)
    \/ SendWriteBegin(k)
    \/ \E o \in {"ok", "error", "garbled", "panic"} : SendWriteEnd(k, o)
    \/ ReadFails(k)
    \/ HCUnregister(k)

\* The steps of the server's goroutines.
ServerStep ==
    \/ WatchStep
    \/ \E k \in Conns : HCStep(k)

NextServer ==
    \/ \E c \in ServerConfigs : CPAdmit(c)
    \/ \E k \in Conns : HCRegister(k)
    \/ \E k \in Conns : PeerGone(k)
    \/ ServerStep

SpecServer == InitServer /\ [][NextServer]_vars

\* The same with every goroutine of the server running on.
SpecServerLive ==
    /\ InitServer /\ [][NextServer]_vars
    /\ WF_vars(WatchStep)
    /\ \A k \in Conns : WF_vars(HCStep(k))

\* C35: a data plane that stays connected ends up with the snapshot of the
\* control plane's active config as the last message it was sent.
C35_EveryChangeIsPushed ==
    \A k \in Conns :
        <>[](srv.hc[k].pc = "reading" /\ k \notin srv.gone) =>
            <>[](srv.last[k] = SnapshotMessage(srv.cfg))

\* C38: at no time are two goroutines inside WriteMessage on one connection.
C38_OneWriterPerConnection ==
    \A k \in Conns : Cardinality(srv.writers[k]) <= 1

====
